---- MODULE Spec2Model ----
(***************************************************************************)
(* Task orchestration and command execution of the Gemini terminal agent.  *)
(*                                                                         *)
(* Spec      one call of AgentTerminal.process_user_task on a freshly      *)
(*           constructed AgentTerminal (src/agent_terminal.py), with       *)
(*           AgentContext / TaskState underneath.  The Oracle (Gemini),    *)
(*           the user at the prompts and the outcome of each child         *)
(*           process are inputs.                                           *)
(* SpecExec  one execution of a command by one of the four executors:      *)
(*           AgentTerminal.execute_command,                                *)
(*           TerminalAIAssistant.execute_command and                       *)
(*           TerminalAIAssistant.stream_command_output                     *)
(*           (src/terminal_ai_assistant.py) and                            *)
(*           CommandChain._execute_command, with the child process, its    *)
(*           two pipes, the clock and the user's Ctrl+C as environment.    *)
(* SpecCtx   any sequence of the operations on one AgentContext:           *)
(*           start_task, start_subtask, complete_current_task,             *)
(*           fail_current_task, and change_directory on its terminal.      *)
(***************************************************************************)
EXTENDS Integers, Sequences, FiniteSets, TLC

\* ------------------------------------------------------------------ bounds
\* A plan has at most MaxSubtasks subtasks and MaxPlanCmds commands in total
\* (commands carried by the plan or generated for a subtask).
MaxSubtasks == 2
MaxPlanCmds == 2
\* The user sends at most MaxInterrupts interrupts (Ctrl+C) during the call.
MaxInterrupts == 1
\* The Oracle directs at most MaxRetries retries with a fallback command.
MaxRetries == 1
\* The configured timeout (config["timeout"]), in seconds.
Timeout == 2
\* The clock is followed up to MaxClock seconds after the call.
MaxClock == 7
\* A child process writes at most MaxLines lines to each of its streams.
MaxLines == 3
\* A pipe holds at most PipeCapacity lines; a write to a full pipe blocks.
PipeCapacity == 2
\* A sequence of AgentContext operations constructs at most MaxTasks
\* TaskState objects.
MaxTasks == 4
\* A command chain has at most MaxSteps steps and is executed at most
\* MaxRuns times.
MaxSteps == 3
MaxRuns == 2

\* ------------------------------------------------------------- constants
SIGINT_EXIT == 130
\* The number of recent errors read back (recent_errors[-3:]).
RECENT_ERRORS_WINDOW == 3
\* The exit code reported for a command that timed out.
TIMEOUT_EXIT == -1
\* process.communicate(timeout=5) of AgentTerminal.execute_command.
COMMUNICATE_TIMEOUT == 5
\* Popen.returncode after process.kill() and after process.terminate().
SIGKILL_RETURNCODE == -9
SIGTERM_RETURNCODE == -15
\* AgentContext.current_task is None; TaskState objects are numbered from 1
\* in the order of their construction.
NoTask == 0
None == "None"
Stamp == "set"

\* Exit statuses a finished child process reports to execute_command.
ExitCodes == {0, 1}

\* Command texts.  The k-th command of a plan has its own text; the Oracle's
\* fallback is either the text of the failed command or another text.
CmdNames == <<"c1", "c2", "c3", "c4", "c5", "c6">>
DiagCmd == "diag"

\* Classes of subtask descriptions, by the substrings process_user_task
\* looks for.
Kinds == {"plain", "sort", "install", "installed", "available"}
IsSortFile(kind) == kind = "sort"
HasInstall(kind) == kind \in {"install", "installed"}
IsProgramRelated(kind) == kind \in {"installed", "available"}

VARIABLES
  context,      \* AgentContext
  auto_run,     \* AgentTerminal.auto_run
  oracle_available, \* FALSE: every call of the Oracle (MODEL.generate_content) raises
  confirmation, \* the user's answer at the approval gate, while it is acted on
  plan_answer,  \* what the planning call of the Oracle came back with
  pc,           \* position of process_user_task
  main_task,    \* id of the root task started by this call
  is_check_installation,
  nsubtasks,    \* len(task_plan['subtasks'])
  planned,      \* commands of the plan read so far
  i,            \* 1-based index of the subtask loop
  is_program_related,
  commands,     \* commands of the current subtask
  j,            \* 1-based index of the command loop
  command,      \* the command last handed to execute_command
  all_success,
  main_task_objective_achieved,
  result,       \* record returned by the last execute_command
  success,      \* verdict of the last verify_command_execution
  next_action,
  oracle_ok,    \* whether that verdict came from the Oracle
  nexec,        \* number of execute_command calls so far
  interrupts,   \* number of interrupts the user has sent so far
  retries,      \* number of fallback commands the Oracle has directed so far
  executor,     \* the function executing the command
  xpc,          \* position of the executor
  child,        \* the child process (subprocess.Popen and what it runs)
  stdout_pipe,  \* lines written to the child's stdout and not read yet
  stderr_pipe,  \* lines written to the child's stderr and not read yet
  stdout_buf,   \* lines read from the pipe into process.stdout, not returned yet
  stderr_buf,   \* lines read from the pipe into process.stderr, not returned yet
  stdout_lines, \* the executor's list stdout_lines
  stderr_lines, \* the executor's list stderr_lines
  remaining_stdout, \* lines communicate() has read from the stdout pipe
  remaining_stderr, \* lines communicate() has read from the stderr pipe
  clock,        \* seconds since start_time
  deadline,     \* clock value at which the pending communicate() times out
  xresult,      \* the result record of the executor
  sigints,      \* number of KeyboardInterrupts raised in the executor
  chain         \* a CommandChain and the call of its execute method

\* The variables of process_user_task, and those of a command's execution.
ovars == <<context, auto_run, oracle_available, confirmation, plan_answer, pc,
           main_task, is_check_installation, nsubtasks,
           planned, i, is_program_related, commands, j, command, all_success,
           main_task_objective_achieved, result, success, next_action,
           oracle_ok, nexec, interrupts, retries>>

xvars == <<executor, xpc, child, stdout_pipe, stderr_pipe, stdout_buf,
           stderr_buf, stdout_lines, stderr_lines, remaining_stdout,
           remaining_stderr, clock, deadline, xresult, sigints>>

\* The variable of a command chain, and what it holds.
cvars == <<chain>>

steps == chain.steps            \* CommandChain.steps
fail_fast == chain.fail_fast    \* the argument of the current execute
cpc == chain.cpc                \* position of CommandChain.execute
ci == chain.ci                  \* 1-based index of the step loop
results == chain.results        \* the list results of execute
any_errors == chain.any_errors
report == chain.report          \* the report execute has returned last
runs == chain.runs              \* number of calls of execute so far

vars == <<ovars, xvars, cvars>>

\* --------------------------------------------------------------- TaskState
NewTaskState(task_id) ==
  [task_id |-> task_id, status |-> "pending", start_time |-> None,
   end_time |-> None, subtasks |-> <<>>, parent_task |-> NoTask,
   command_history |-> <<>>, output |-> "", error |-> ""]

TaskStart(t) == [t EXCEPT !.status = "in_progress", !.start_time = Stamp]

TaskComplete(t, output) ==
  [t EXCEPT !.status = "completed", !.end_time = Stamp, !.output = output]

\* A failure that does not stamp the end of the task.
TaskFailUnstamped(t, error) ==
  [t EXCEPT !.status = "failed", !.error = error]

TaskFail(t, error) ==
  [t EXCEPT !.status = "failed", !.end_time = Stamp, !.error = error]

\* ------------------------------------------------------- texts and paths
\* The command texts handed to execute_command (and typed at the prompt),
\* each with the sequence of its characters.
Chars ==
  "c1" :> <<"c", "1">>
  @@ "cd" :> <<"c", "d">>
  @@ "cd /" :> <<"c", "d", " ", "/">>
  @@ "cd .." :> <<"c", "d", " ", ".", ".">>
  @@ "cd b" :> <<"c", "d", " ", "b">>
  @@ "cd x" :> <<"c", "d", " ", "x">>
  @@ "cd ~" :> <<"c", "d", " ", "~">>
  @@ "cd /a/f" :> <<"c", "d", " ", "/", "a", "/", "f">>
  @@ "cd ./b/../.." :> <<"c", "d", " ", ".", "/", "b", "/", ".", ".", "/", ".", ".">>
  @@ " cd /a" :> <<" ", "c", "d", " ", "/", "a">>
  @@ "  cd /a" :> <<" ", " ", "c", "d", " ", "/", "a">>

\* The file system: the directories and the regular files there are, each
\* absolute path being the sequence of its components ("/", "/a", "/a/b";
\* "/a/f").
Directories == {<<>>, << <<"a">> >>, << <<"a">>, <<"b">> >>}
RegularFiles == {<< <<"a">>, <<"f">> >>}
\* os.getcwd() when the AgentContext is constructed: "/a/b".
getcwd == << <<"a">>, <<"b">> >>
\* os.path.expanduser("~"): "/a".
expanduser == <<"/", "a">>

\* str.strip(), str.startswith(prefix)
RECURSIVE lstrip(_)
lstrip(text) ==
  IF text # <<>> /\ text[1] = " " THEN lstrip(Tail(text)) ELSE text

RECURSIVE rstrip(_)
rstrip(text) ==
  IF text # <<>> /\ text[Len(text)] = " "
  THEN rstrip(SubSeq(text, 1, Len(text) - 1)) ELSE text

strip(text) == rstrip(lstrip(text))

startswith(text, prefix) ==
  /\ Len(prefix) <= Len(text)
  /\ SubSeq(text, 1, Len(prefix)) = prefix

\* os.path.isabs(path)
isabs(path) == path # <<>> /\ path[1] = "/"

\* The components of a path text: the pieces between its separators, the
\* empty ones left out; piece holds the characters of the component being
\* read.
RECURSIVE components(_, _)
components(text, piece) ==
  IF text = <<>> THEN (IF piece = <<>> THEN <<>> ELSE <<piece>>)
  ELSE IF text[1] = "/"
  THEN (IF piece = <<>> THEN <<>> ELSE <<piece>>) \o components(Tail(text), <<>>)
  ELSE components(Tail(text), Append(piece, text[1]))

\* os.path.normpath on the components of an absolute path: "." is dropped,
\* ".." drops the component before it and is dropped itself at the root.
RECURSIVE normpath(_)
normpath(parts) ==
  IF parts = <<>> THEN <<>>
  ELSE LET front == normpath(SubSeq(parts, 1, Len(parts) - 1))
           last == parts[Len(parts)]
       IN IF last = <<".">> THEN front
          ELSE IF last = <<".", ".">>
          THEN (IF front = <<>> THEN <<>> ELSE SubSeq(front, 1, Len(front) - 1))
          ELSE Append(front, last)

\* Lines 1269-1278 of change_directory: the absolute, normalised path that
\* path names in the directory cwd.
new_path(cwd, path) ==
  LET p == IF path = <<"~">> THEN expanduser ELSE path
  IN IF isabs(p) THEN normpath(components(p, <<>>))
     ELSE normpath(cwd \o components(p, <<>>))

\* ------------------------------------------------------------ AgentContext
\* tasks holds every TaskState constructed so far; current_task, the
\* entries of task_history, parent_task and the entries of subtasks refer to
\* a TaskState by its number.
NewContext ==
  [current_task |-> NoTask, task_history |-> <<>>, tasks |-> <<>>,
   command_history |-> <<>>, recent_errors |-> <<>>,
   current_directory |-> getcwd]

\* An id counted from the subtasks already there.
subtask_id_unshifted(t) == t.task_id \o "." \o ToString(Len(t.subtasks))

\* The id TaskState.add_subtask gives to the next subtask of t.
subtask_id(t) == t.task_id \o "." \o ToString(Len(t.subtasks) + 1)

start_task(ctx) ==
  LET task_id == ToString(Len(ctx.task_history) + 1)
      n == Len(ctx.tasks) + 1
  IN [ctx EXCEPT !.tasks = Append(@, TaskStart(NewTaskState(task_id))),
                 !.current_task = n,
                 !.task_history = Append(@, n)]

start_subtask(ctx) ==
  IF ctx.current_task # NoTask
  THEN LET parent == ctx.current_task
           n == Len(ctx.tasks) + 1
           sub == [TaskStart(NewTaskState(subtask_id(ctx.tasks[parent])))
                     EXCEPT !.parent_task = parent]
       IN [ctx EXCEPT
             !.tasks = Append([@ EXCEPT ![parent].subtasks = Append(@, n)], sub),
             !.current_task = n]
  ELSE ctx

\* A return that leaves the pointer on the task just ended.
ReturnToParentStays(ctx) == ctx.current_task

ReturnToParent(ctx) ==
  IF ctx.tasks[ctx.current_task].parent_task # NoTask
  THEN ctx.tasks[ctx.current_task].parent_task
  ELSE ctx.current_task

complete_current_task(ctx, output) ==
  IF ctx.current_task # NoTask
  THEN [ctx EXCEPT !.tasks[ctx.current_task] = TaskComplete(@, output),
                   !.current_task = ReturnToParent(ctx)]
  ELSE ctx

fail_current_task(ctx, error) ==
  IF ctx.current_task # NoTask
  THEN [ctx EXCEPT !.tasks[ctx.current_task] = TaskFail(@, error),
                   !.current_task = ReturnToParent(ctx)]
  ELSE ctx

\* An add_command_to_current_task that keeps the global log for the commands
\* run outside any task.
add_command_to_task_else_global(ctx, command_data) ==
  IF ctx.current_task # NoTask
  THEN [ctx EXCEPT !.tasks[ctx.current_task].command_history =
                     Append(@, command_data)]
  ELSE [ctx EXCEPT !.command_history = Append(@, command_data)]

add_command_to_current_task(ctx, command_data) ==
  LET c1 == IF ctx.current_task # NoTask
            THEN [ctx EXCEPT !.tasks[ctx.current_task].command_history =
                               Append(@, command_data)]
            ELSE ctx
  IN [c1 EXCEPT !.command_history = Append(@, command_data)]

\* ---------------------------------------------------------- execute_command
Record(cmd, code, out, err) ==
  [command |-> cmd, exit_code |-> code, stdout |-> out, stderr |-> err]

NoResult == Record("", 0, "", "")

\* What one call of execute_command can end in: the child exits with a code
\* (with or without stderr output), or the user interrupts the call.
ExecOutcomes(n) ==
  [kind : {"exit"}, code : ExitCodes]
  \cup (IF n < MaxInterrupts
        THEN {[kind |-> "interrupt", code |-> SIGINT_EXIT]} ELSE {})

\* Interrupts sent once a call of execute_command has ended in o.
Interrupted(n, o) == IF o.kind = "interrupt" THEN n + 1 ELSE n

ExitStderr(code) == IF code = 0 THEN "" ELSE "err"

\* The record execute_command returns.
ExecResult(cmd, o) ==
  IF o.kind = "interrupt"
  THEN Record(cmd, SIGINT_EXIT, "", "Command interrupted by user")
  ELSE Record(cmd, o.code, "out", ExitStderr(o.code))

\* The context execute_command leaves.
ExecContext(ctx, cmd, o) ==
  LET c1 == IF ctx.current_task # NoTask
            THEN add_command_to_current_task(ctx, Record(cmd, 0, "", ""))
            ELSE ctx
  IN IF o.kind = "interrupt"
     THEN c1
     ELSE LET res == ExecResult(cmd, o)
              c2 == add_command_to_current_task(c1, res)
          IN IF res.exit_code # 0 /\ res.stderr # ""
             THEN [c2 EXCEPT !.recent_errors = Append(@, <<cmd, res.stderr>>)]
             ELSE c2

\* ---------------------------------------------------------- change_directory
\* A change_directory that takes the path it is given for a directory.
change_directory_unchecked(ctx, path) ==
  [ctx EXCEPT !.current_directory = new_path(ctx.current_directory, path)]

\* AgentTerminal.change_directory(path): the context it leaves.
change_directory(ctx, path) ==
  LET np == new_path(ctx.current_directory, path)
  IN IF np \in Directories
     THEN [ctx EXCEPT !.current_directory = np]
     ELSE ctx

\* Line 1099: the commands execute_command takes for a directory change,
\* command.strip().startswith("cd ").
DirectoryChanges ==
  {cmd \in DOMAIN Chars : startswith(strip(Chars[cmd]), <<"c", "d", " ">>)}

IsDirectoryChange(cmd) == cmd \in DirectoryChanges

\* Line 1100: path = command[3:].strip(), for each command text.
PathOf ==
  [cmd \in DOMAIN Chars |-> strip(SubSeq(Chars[cmd], 4, Len(Chars[cmd])))]

cd_path(cmd) == PathOf[cmd]

\* Lines 1082-1102: the context execute_command leaves for a directory
\* change.
ChangeDirectoryContext(ctx, cmd) ==
  LET c1 == IF ctx.current_task # NoTask
            THEN add_command_to_current_task(ctx, Record(cmd, 0, "", ""))
            ELSE ctx
  IN change_directory(c1, cd_path(cmd))

\* A record for a directory change that reports whether the directory was
\* entered.
ChangeDirectoryResultChecked(ctx, cmd) ==
  IF new_path(ctx.current_directory, cd_path(cmd)) \in Directories
  THEN [exit_code |-> 0,
        stdout |-> << <<"Changed directory to", ctx.current_directory>> >>,
        stderr |-> <<>>]
  ELSE [exit_code |-> 1, stdout |-> <<>>,
        stderr |-> << <<"Directory not found", cd_path(cmd)>> >>]

\* Lines 1103-1110: the record execute_command returns for a directory
\* change, ctx being the context change_directory has left.
ChangeDirectoryResult(ctx, cmd) ==
  [exit_code |-> 0,
   stdout |-> << <<"Changed directory to", ctx.current_directory>> >>,
   stderr |-> <<>>]

\* ------------------------------------------------- verify_command_execution
NoAction == [action |-> None, fallback_command |-> None]

\* The answers of the Oracle to a verify request.  parsed: the call returned
\* text that parses to a JSON object, with success (False when missing) and
\* the next_action object ({} when missing: action None).  Not parsed: the call
\* raised or its text is no JSON.
OracleVerdicts(cmd) ==
  [parsed : {TRUE}, success : {TRUE},
   next_action : [action : {"continue", "abort"}, fallback_command : {None}]]
  \cup
  [parsed : {TRUE}, success : {FALSE},
   next_action : [action : {"continue", "skip", "abort", None},
                  fallback_command : {None}]]
  \cup
  [parsed : {TRUE}, success : {FALSE},
   next_action : [action : {"retry"}, fallback_command : {None, cmd, DiagCmd}]]

OracleFailure == [parsed |-> FALSE, success |-> FALSE, next_action |-> NoAction]

OracleAnswers(cmd) ==
  IF oracle_available
  THEN OracleVerdicts(cmd) \cup {OracleFailure}
  ELSE {OracleFailure}

DirectsFallback(na) == na.action = "retry" /\ na.fallback_command # None

\* The answers to the verify request on a planned command, n fallback
\* commands having been directed before.
VerifyAnswers(cmd, n) ==
  {a \in OracleAnswers(cmd) : n < MaxRetries \/ ~DirectsFallback(a.next_action)}

\* A structural verdict that gives up on a failed command.
DefaultVerdictAbort(res) ==
  LET default_success == res.exit_code = 0
  IN [success |-> default_success,
      next_action |-> [action |-> IF default_success THEN "continue" ELSE "abort",
                       fallback_command |-> None]]

\* The structural verdict used when the Oracle call raises or its text does
\* not parse (default_success, default_action).
DefaultVerdict(res) ==
  LET default_success == res.exit_code = 0
  IN [success |-> default_success,
      next_action |-> [action |-> IF default_success THEN "continue" ELSE "skip",
                       fallback_command |-> None]]

\* verify_command_execution: (success, next_action) for an Oracle answer.
verify_command_execution(res, answer) ==
  IF answer.parsed
  THEN [success |-> answer.success, next_action |-> answer.next_action]
  ELSE DefaultVerdict(res)

\* next_action.get("action", "abort")
ActionOf(na) == IF na.action = None THEN "abort" ELSE na.action

\* ------------------------------------------------------- a child process
\* The lines a child writes to its stdout and to its stderr, in order.  The
\* second stdout line is a blank line.
OutLines == <<"o1", "", "o3", "o4">>
ErrLines == <<"e1", "e2", "e3", "e4">>

\* A child that has not been spawned: it will write n_out and n_err lines,
\* and then exit with status code unless it hangs.
NewChild(hangs, code, n_out, n_err) ==
  [alive |-> FALSE, exited |-> FALSE, hangs |-> hangs, code |-> code,
   n_out |-> n_out, n_err |-> n_err, w_out |-> 0, w_err |-> 0,
   returncode |-> 0]

\* The result record of an executor; the two texts are kept as the
\* sequences of their lines.
ProcessResult(code, out, err) ==
  [exit_code |-> code, stdout |-> out, stderr |-> err]

NoProcessResult == ProcessResult(0, <<>>, <<>>)

\* The pipes, buffers and lists of an execution that has read nothing.
NothingRead ==
  /\ stdout_pipe = <<>>
  /\ stderr_pipe = <<>>
  /\ stdout_buf = <<>>
  /\ stderr_buf = <<>>
  /\ stdout_lines = <<>>
  /\ stderr_lines = <<>>
  /\ remaining_stdout = <<>>
  /\ remaining_stderr = <<>>

\* No command is being executed.
NoExecution ==
  /\ executor = "none"
  /\ xpc = "none"
  /\ child = NewChild(FALSE, 0, 0, 0)
  /\ NothingRead
  /\ clock = 0
  /\ deadline = 0
  /\ xresult = NoProcessResult
  /\ sigints = 0

\* The report of a chain that has not been executed.
NoReport ==
  [steps |-> <<>>, success |-> TRUE, steps_total |-> 0, steps_executed |-> 0,
   steps_successful |-> 0, steps_failed |-> 0, steps_skipped |-> 0]

NewChain(stps) ==
  [steps |-> stps, fail_fast |-> TRUE, cpc |-> "idle", ci |-> 0,
   results |-> <<>>, any_errors |-> FALSE, report |-> NoReport, runs |-> 0]

\* No CommandChain has been constructed.
NoChain == chain = [cpc |-> "none"]

\* -------------------------------------------------------- process_user_task
InitTask ==
  /\ context = NewContext
  /\ auto_run \in BOOLEAN
  /\ oracle_available \in BOOLEAN
  /\ confirmation = ""
  /\ plan_answer = "none"
  /\ pc = "idle"
  /\ main_task = NoTask
  /\ is_check_installation = FALSE
  /\ nsubtasks = 0
  /\ planned = 0
  /\ i = 0
  /\ is_program_related = FALSE
  /\ commands = <<>>
  /\ j = 0
  /\ all_success = TRUE
  /\ main_task_objective_achieved = FALSE
  /\ result = NoResult
  /\ success = FALSE
  /\ next_action = NoAction
  /\ oracle_ok = FALSE
  /\ nexec = 0
  /\ interrupts = 0
  /\ retries = 0

Init == InitTask /\ command = "" /\ NoExecution /\ NoChain

Min(a, b) == IF a < b THEN a ELSE b

\* What the planning call of the Oracle (get_task_planning) comes back with:
\* the call raises; its text is no JSON; the text parses to JSON without
\* 'task_summary' or 'subtasks'; the text parses to a plan.
PlanFailures == {"raised", "unparseable"}

PlanAnswers ==
  IF oracle_available
  THEN PlanFailures \cup {"malformed", "plan"}
  ELSE {"raised"}

\* A fallback plan of two direct subtasks.
FallbackPlanTwice ==
  <<[kind |-> "plain", commands |-> <<>>], [kind |-> "plain", commands |-> <<>>]>>

\* The fallback plan of get_task_planning and of process_user_task: one
\* subtask 'Execute task directly' with "commands": [].
FallbackPlan == <<[kind |-> "plain", commands |-> <<>>]>>

\* Lines 1514-1532: the task is started.
StartTask ==
  /\ pc = "idle"
  /\ LET ctx == start_task(context)
     IN /\ context' = ctx
        /\ main_task' = ctx.current_task
  /\ is_check_installation' \in BOOLEAN
  /\ pc' = "plan"
  /\ UNCHANGED <<auto_run, oracle_available, confirmation, plan_answer,
                 nsubtasks, planned, i, is_program_related, commands, j, command,
                 all_success, main_task_objective_achieved, result, success,
                 next_action, oracle_ok, nexec, interrupts, retries>>
  /\ UNCHANGED <<xvars, cvars>>

\* Lines 1534-1570: the task is planned and the plan displayed.  When the
\* call raises or its text does not parse, the plan is the fallback plan; a
\* JSON text without 'task_summary' or 'subtasks' is returned as the plan,
\* and displaying it raises KeyError out of process_user_task.  The entries
\* of an Oracle's plan are read one per iteration of the subtask loop, and
\* are drawn when read.
Plan ==
  /\ pc = "plan"
  /\ \E answer \in PlanAnswers :
       /\ plan_answer' = answer
       /\ IF answer \in PlanFailures
          THEN /\ nsubtasks' = Len(FallbackPlan)
               /\ pc' = "approval"
          ELSE IF answer = "malformed"
          THEN /\ nsubtasks' = nsubtasks
               /\ pc' = "raised"
          ELSE /\ nsubtasks' \in 1..Min(MaxSubtasks, MaxPlanCmds)
               /\ pc' = "approval"
  /\ UNCHANGED <<context, auto_run, oracle_available, confirmation, main_task,
                 is_check_installation, planned, i, is_program_related,
                 commands, j, command, all_success,
                 main_task_objective_achieved, result, success, next_action,
                 oracle_ok, nexec, interrupts, retries>>
  /\ UNCHANGED <<xvars, cvars>>

\* What the user types at 'Does this plan look good? (y/n/modify)'.
Confirmations == {"y", "n", "N", "no", "modify", "MODIFY"}

\* str.lower() on those answers.
lower(text) ==
  IF text = "N" THEN "n"
  ELSE IF text = "MODIFY" THEN "modify"
  ELSE text

\* Lines 1572-1575 and 1586-1594: the approval gate asks the user, or
\* auto-run sleeps 3 s, during which Ctrl+C cancels the task.
Approval ==
  /\ pc = "approval"
  /\ \/ /\ ~auto_run
        /\ confirmation' \in Confirmations
        /\ pc' = "confirm"
        /\ UNCHANGED <<context, i, interrupts>>
     \/ /\ auto_run                       \* Ctrl+C during the sleep
        /\ interrupts < MaxInterrupts
        /\ interrupts' = interrupts + 1
        /\ context' = fail_current_task(context, "User cancelled task")
        /\ pc' = "ret_cancel"
        /\ UNCHANGED <<i, confirmation>>
     \/ /\ auto_run
        /\ pc' = "subtask_loop"
        /\ i' = 1
        /\ UNCHANGED <<context, interrupts, confirmation>>
  /\ UNCHANGED <<auto_run, oracle_available, plan_answer, main_task,
                 is_check_installation, nsubtasks,
                 planned, is_program_related, commands, j, command, all_success,
                 main_task_objective_achieved, result, success, next_action,
                 oracle_ok, nexec, retries>>
  /\ UNCHANGED <<xvars, cvars>>

\* A rejection read without str.lower().
ConfirmationRejectsCaseSensitive == confirmation = "n"

\* Line 1577: the answer rejects the plan.
ConfirmationRejects == lower(confirmation) = "n"

\* Lines 1577-1585: the answer to the approval gate is acted on.  'n'
\* cancels the task; on 'modify' the modifications are read and the plan is
\* executed as it is; any other answer executes the plan.
Confirmed ==
  /\ pc = "confirm"
  /\ IF ConfirmationRejects
     THEN /\ context' = fail_current_task(context, "User cancelled task")
          /\ pc' = "ret_cancel"
          /\ i' = i
     ELSE /\ pc' = "subtask_loop"
          /\ i' = 1
          /\ context' = context
  /\ confirmation' = ""
  /\ UNCHANGED <<auto_run, oracle_available, plan_answer, main_task,
                 is_check_installation, nsubtasks,
                 planned, is_program_related, commands, j, command, all_success,
                 main_task_objective_achieved, result, success, next_action,
                 oracle_ok, nexec, interrupts, retries>>
  /\ UNCHANGED <<xvars, cvars>>

\* Lines 1872-1882: the end of process_user_task, from context ctx.
Finish(ctx) ==
  /\ context' = complete_current_task(ctx, "All necessary subtasks completed")
  /\ pc' = "ret_end"
  /\ i' = i

\* Line 1601: the subtask loop takes its next entry, or is exhausted.
NextSubtask(ctx) ==
  IF i + 1 > nsubtasks
  THEN Finish(ctx)
  ELSE /\ context' = ctx
       /\ pc' = "subtask_loop"
       /\ i' = i + 1

\* Line 1696: the command loop takes its next entry, or is exhausted.
NextCommand ==
  /\ j' = j + 1
  /\ pc' = IF j + 1 > Len(commands) THEN "subtask_end" ELSE "command_loop"

\* The commands of a subtask: w texts not used by the plan before.
PlanCommands(from, w) == [k \in 1..w |-> CmdNames[from + k]]

\* The classes the description of the k-th subtask of the plan can have.
PlanKinds(k) ==
  IF plan_answer \in PlanFailures THEN {FallbackPlan[k].kind} ELSE Kinds

\* Whether the k-th subtask of the plan can carry commands of its own.
CarriesCommands(k) ==
  IF plan_answer \in PlanFailures THEN FallbackPlan[k].commands # <<>> ELSE TRUE

\* The number of commands the plan can still spend on its i-th subtask, one
\* at least being left to each subtask after it.
Budget == MaxPlanCmds - planned - (nsubtasks - i)

\* Lines 1601-1692: one entry of the subtask loop, up to its command loop.
\* kind is the class of the subtask's description, w the number of the
\* commands the subtask carries; a subtask that carries none has them
\* generated.
SubtaskStart ==
  /\ pc = "subtask_loop"
  /\ \E kind \in PlanKinds(i) :
       LET ctx == start_subtask(context) IN
       /\ is_program_related' = IF IsSortFile(kind) THEN is_program_related
                                                   ELSE IsProgramRelated(kind)
       /\ \/ /\ IsSortFile(kind)           \* lines 1610-1656
             /\ Finish(complete_current_task(ctx, "Files sorted successfully"))
             /\ main_task_objective_achieved' = TRUE
             /\ UNCHANGED <<commands, j, all_success, planned>>
          \/ /\ ~IsSortFile(kind) /\ HasInstall(kind)   \* lines 1664-1671
             /\ NextSubtask(fail_current_task(ctx, "Failed to install package manager"))
             /\ UNCHANGED <<main_task_objective_achieved, commands, j,
                            all_success, planned>>
          \/ /\ ~IsSortFile(kind) /\ HasInstall(kind)   \* lines 1674-1682
             /\ Finish(complete_current_task(ctx, "Package already installed"))
             /\ main_task_objective_achieved' = TRUE
             /\ UNCHANGED <<commands, j, all_success, planned>>
          \/ /\ ~IsSortFile(kind)                       \* lines 1684-1690, 1695
             /\ CarriesCommands(i)
             /\ \E w \in 1..Budget :
                  /\ commands' = PlanCommands(planned, w)
                  /\ planned' = planned + w
             /\ context' = ctx
             /\ j' = 1
             /\ all_success' = TRUE
             /\ pc' = "command_loop"
             /\ UNCHANGED <<i, main_task_objective_achieved>>
          \/ /\ ~IsSortFile(kind)                       \* lines 1684-1692
             /\ commands' = <<>>
             /\ context' = ctx
             /\ pc' = "generate"
             /\ UNCHANGED <<i, j, all_success, planned,
                            main_task_objective_achieved>>
  /\ UNCHANGED <<auto_run, oracle_available, confirmation, plan_answer,
                 main_task, is_check_installation, nsubtasks,
                 command, result, success, next_action, oracle_ok, nexec, interrupts, retries>>
  /\ UNCHANGED <<xvars, cvars>>

\* What the generation call of the Oracle yields: the number of command
\* lines extracted from its text (final_commands), 0 when the call raises or
\* no line of the text is taken for a command.
GenerationAnswers == IF oracle_available THEN 0..Budget ELSE {0}

\* A command generation that returns what was extracted, be it nothing.
get_command_generation_no_default(extracted, default_commands) == extracted

\* get_command_generation: the commands extracted from the Oracle's text, or
\* default_commands when there are none.
get_command_generation(extracted, default_commands) ==
  IF extracted > 0 THEN extracted ELSE default_commands

\* Lines 1692-1696: the commands of a subtask that carries none are
\* generated; default_commands holds one command or more, by the words of
\* the task. The command loop over an empty list has no entry.
GenerateCommands ==
  /\ pc = "generate"
  /\ \E extracted \in GenerationAnswers, default_commands \in 1..Budget :
       LET w == get_command_generation(extracted, default_commands) IN
       /\ commands' = PlanCommands(planned, w)
       /\ planned' = planned + w
       /\ pc' = IF w = 0 THEN "subtask_end" ELSE "command_loop"
  /\ j' = 1
  /\ all_success' = TRUE
  /\ UNCHANGED <<context, auto_run, oracle_available, confirmation,
                 plan_answer, main_task, is_check_installation, nsubtasks, i,
                 is_program_related, command, main_task_objective_achieved,
                 result, success, next_action, oracle_ok, nexec, interrupts,
                 retries>>
  /\ UNCHANGED <<xvars, cvars>>

\* A skip that leaves a record of the command in the logs.
SkipCommandLogged ==
  /\ NextCommand
  /\ context' = add_command_to_current_task(context,
                                            Record(commands[j], 0, "", ""))
  /\ UNCHANGED <<command, result, nexec, interrupts>>

\* Lines 1702-1704: the user answers 'n' and the loop continues with the next
\* command.
SkipCommand ==
  /\ NextCommand
  /\ UNCHANGED <<context, command, result, nexec, interrupts>>

\* Lines 1696-1710: one entry of the command loop, up to execute_command.
\* (cmd_confirm 'edit' replaces the text of the command by the user's; the
\* texts of a plan are arbitrary already.)
CommandLoop ==
  /\ pc = "command_loop"
  /\ \/ /\ ~auto_run                      \* cmd_confirm 'n'
        /\ SkipCommand
     \/ /\ \E o \in ExecOutcomes(interrupts) :
             /\ context' = ExecContext(context, commands[j], o)
             /\ result' = ExecResult(commands[j], o)
             /\ interrupts' = Interrupted(interrupts, o)
        /\ command' = commands[j]
        /\ nexec' = nexec + 1
        /\ pc' = "verify"
        /\ j' = j
  /\ UNCHANGED <<auto_run, oracle_available, confirmation, plan_answer,
                 main_task, is_check_installation, nsubtasks,
                 planned, i, is_program_related, commands, all_success,
                 main_task_objective_achieved, success, next_action, oracle_ok, retries>>
  /\ UNCHANGED <<xvars, cvars>>

\* diagnostics.is_installed matters only to an installation check on a
\* program-related subtask (line 1725).
InstalledAnswers(answer) ==
  IF answer.parsed /\ is_check_installation /\ is_program_related
  THEN BOOLEAN ELSE {FALSE}

\* Lines 1713-1732: the verdict on the command just executed.
Verify ==
  /\ pc = "verify"
  /\ \E answer \in VerifyAnswers(command, retries) :
       LET v == verify_command_execution(result, answer) IN
       /\ success' = v.success
       /\ next_action' = v.next_action
       /\ oracle_ok' = answer.parsed
       /\ \E is_installed \in InstalledAnswers(answer) :
            main_task_objective_achieved' =
              (main_task_objective_achieved \/ is_installed)
  /\ pc' = "decide"
  /\ UNCHANGED <<context, auto_run, oracle_available, confirmation,
                 plan_answer, main_task, is_check_installation,
                 nsubtasks, planned, i, is_program_related, commands, j, command,
                 all_success, result, nexec, interrupts, retries>>
  /\ UNCHANGED <<xvars, cvars>>

\* The verdict has been acted on; nothing reads it again before the next
\* verify_command_execution overwrites it.
VerdictConsumed ==
  /\ success' = FALSE
  /\ next_action' = NoAction
  /\ oracle_ok' = FALSE

\* Lines 1734-1759: what the orchestrator does with the verdict.
Decide ==
  /\ pc = "decide"
  /\ IF success
     THEN /\ NextCommand
          /\ UNCHANGED <<context, all_success, retries>>
     ELSE /\ all_success' = FALSE
          /\ IF ActionOf(next_action) = "retry" /\ next_action.fallback_command # None
             THEN /\ pc' = "fallback_exec"
                  /\ retries' = retries + 1
                  /\ UNCHANGED <<context, j>>
             ELSE IF ActionOf(next_action) = "skip"
             THEN /\ NextCommand
                  /\ UNCHANGED <<context, retries>>
             ELSE IF ActionOf(next_action) = "abort"
             THEN /\ context' = fail_current_task(context, "Failed at subtask")
                  /\ pc' = "ret_abort"
                  /\ UNCHANGED <<j, retries>>
             ELSE /\ pc' = "subtask_end"
                  /\ UNCHANGED <<context, j, retries>>
  /\ IF pc' = "fallback_exec"
     THEN UNCHANGED <<success, next_action, oracle_ok>>
     ELSE VerdictConsumed
  /\ UNCHANGED <<auto_run, oracle_available, confirmation, plan_answer,
                 main_task, is_check_installation, nsubtasks,
                 planned, i, is_program_related, commands, command,
                 main_task_objective_achieved, result, nexec, interrupts>>
  /\ UNCHANGED <<xvars, cvars>>

\* Line 1747: the fallback command is executed.
FallbackExec ==
  /\ pc = "fallback_exec"
  /\ \E o \in ExecOutcomes(interrupts) :
       /\ context' = ExecContext(context, next_action.fallback_command, o)
       /\ result' = ExecResult(next_action.fallback_command, o)
       /\ interrupts' = Interrupted(interrupts, o)
  /\ command' = next_action.fallback_command
  /\ nexec' = nexec + 1
  /\ pc' = "fallback_verify"
  /\ UNCHANGED <<auto_run, oracle_available, confirmation, plan_answer,
                 main_task, is_check_installation, nsubtasks,
                 planned, i, is_program_related, commands, j, all_success,
                 main_task_objective_achieved, success, next_action, oracle_ok, retries>>
  /\ UNCHANGED <<xvars, cvars>>

\* The Oracle's answers on a fallback command: whatever next_action it
\* carries, only success is read.
FallbackAnswers(cmd) ==
  {a \in OracleAnswers(cmd) :
     \/ ~a.parsed
     \/ a.success /\ a.next_action.action = "continue"
     \/ ~a.success /\ a.next_action.action = "retry"
                   /\ a.next_action.fallback_command = cmd}

\* A fallback verification that follows a further 'retry' directive and
\* executes the fallback of the fallback.
FallbackVerifyAgain ==
  /\ pc = "fallback_verify"
  /\ \E answer \in FallbackAnswers(command) :
       LET v == verify_command_execution(result, answer) IN
       /\ all_success' = v.success
       /\ IF v.success
          THEN NextCommand /\ VerdictConsumed
          ELSE IF DirectsFallback(v.next_action)
          THEN /\ j' = j
               /\ pc' = "fallback_exec"
               /\ success' = v.success
               /\ next_action' = v.next_action
               /\ oracle_ok' = answer.parsed
          ELSE /\ j' = j
               /\ pc' = "subtask_end"
               /\ VerdictConsumed
  /\ UNCHANGED <<context, auto_run, oracle_available, confirmation,
                 plan_answer, main_task, is_check_installation,
                 nsubtasks, planned, i, is_program_related, commands, command,
                 main_task_objective_achieved, result, nexec, interrupts, retries>>
  /\ UNCHANGED <<xvars, cvars>>

\* Lines 1748-1749 and 1758-1759: the verdict on the fallback command; only
\* its success is read, and it decides the subtask.
FallbackVerify ==
  /\ pc = "fallback_verify"
  /\ \E answer \in FallbackAnswers(command) :
       LET v == verify_command_execution(result, answer) IN
       /\ all_success' = v.success
       /\ IF v.success
          THEN NextCommand
          ELSE /\ j' = j
               /\ pc' = "subtask_end"
  /\ VerdictConsumed
  /\ UNCHANGED <<context, auto_run, oracle_available, confirmation,
                 plan_answer, main_task, is_check_installation,
                 nsubtasks, planned, i, is_program_related, commands, command,
                 main_task_objective_achieved, result, nexec, interrupts, retries>>
  /\ UNCHANGED <<xvars, cvars>>

\* Lines 1775-1817: whether the loop goes on after a failed subtask.  The
\* Oracle is asked when subtasks remain, and the answer is False also when
\* the call raises or its text does not parse.
ContinuationAnswers ==
  IF i < nsubtasks
  THEN (IF oracle_available THEN BOOLEAN ELSE {FALSE})
  ELSE {TRUE}

\* A verification exit that asks for a program-related subtask.
ObjectiveByVerificationOfProgram ==
  is_check_installation /\ i < nsubtasks /\ all_success /\ is_program_related

\* Line 1766: a non-final subtask of an installation check has succeeded.
ObjectiveByVerification ==
  is_check_installation /\ i < nsubtasks /\ all_success

\* Lines 1818-1823: the Oracle is asked whether the objective of the task is
\* achieved; achieved is main_task_objective_achieved at line 1818.
EvaluationDue(achieved) ==
  ~achieved /\ is_check_installation /\ i < nsubtasks /\ all_success

\* Lines 1848-1868: is_complete of the evaluation (False also when the call
\* raises or its text does not parse).
EvaluationAnswers == IF oracle_available THEN BOOLEAN ELSE {FALSE}

\* Lines 1761-1870: the subtask is completed or failed, and the loop goes on,
\* breaks or returns.  should_continue is the Oracle's continuation decision
\* (False also when the call raises or does not parse).
SubtaskEnd ==
  /\ pc = "subtask_end"
  /\ IF all_success
     THEN LET ctx == complete_current_task(context, "Completed successfully")
              achieved == main_task_objective_achieved \/ ObjectiveByVerification
          IN IF EvaluationDue(achieved)
             THEN \E is_complete \in EvaluationAnswers :     \* lines 1823-1868
                    /\ main_task_objective_achieved' = is_complete
                    /\ IF is_complete THEN Finish(ctx) ELSE NextSubtask(ctx)
             ELSE /\ main_task_objective_achieved' = achieved
                  /\ IF achieved THEN Finish(ctx) ELSE NextSubtask(ctx)
     ELSE LET ctx == fail_current_task(context, "Command execution failed") IN
          /\ UNCHANGED main_task_objective_achieved
          /\ \E should_continue \in ContinuationAnswers :
               IF ~should_continue
               THEN context' = ctx /\ pc' = "ret_nocontinue" /\ i' = i
               ELSE IF main_task_objective_achieved
               THEN Finish(ctx)
               ELSE NextSubtask(ctx)
  /\ UNCHANGED <<auto_run, oracle_available, confirmation, plan_answer,
                 main_task, is_check_installation, nsubtasks,
                 planned, is_program_related, commands, j, command, all_success, result,
                 success, next_action, oracle_ok, nexec, interrupts, retries>>
  /\ UNCHANGED <<xvars, cvars>>

Next ==
  \/ StartTask
  \/ Plan
  \/ Approval
  \/ Confirmed
  \/ SubtaskStart
  \/ GenerateCommands
  \/ CommandLoop
  \/ Verify
  \/ Decide
  \/ FallbackExec
  \/ FallbackVerify
  \/ SubtaskEnd

Spec == Init /\ [][Next]_vars

\* ------------------------------------------------- executing one command
\* AgentTerminal.execute_command, TerminalAIAssistant.execute_command,
\* TerminalAIAssistant.stream_command_output, CommandChain._execute_command.
Executors == {"agent", "assistant", "stream", "chain"}

\* A command is handed to one of the executors; start_time is taken.
InitExec ==
  /\ InitTask
  /\ auto_run = FALSE
  /\ oracle_available
  /\ executor \in Executors
  /\ command \in (IF executor = "agent" THEN DirectoryChanges \cup {"c1"}
                                         ELSE {"c1"})
  /\ xpc = "start"
  /\ \E hangs \in BOOLEAN, code \in ExitCodes, n_out, n_err \in 0..MaxLines :
       child = NewChild(hangs, code, n_out, n_err)
  /\ NothingRead
  /\ clock = 0
  /\ deadline = 0
  /\ xresult = NoProcessResult
  /\ sigints = 0
  /\ NoChain

\* The executor returns the record r.
Return(r) ==
  /\ xresult' = r
  /\ xpc' = "returned"

\* process.kill() / process.terminate() on a child that may have exited.
Signalled(c, returncode) ==
  IF c.alive THEN [c EXCEPT !.alive = FALSE, !.returncode = returncode] ELSE c

\* The trailing blank lines of seq dropped.
RECURSIVE RStrip(_)
RStrip(seq) ==
  IF seq = <<>> THEN <<>>
  ELSE IF seq[Len(seq)] = "" THEN RStrip(SubSeq(seq, 1, Len(seq) - 1))
  ELSE seq

\* What 'if remaining: lines.extend(remaining.rstrip().split('\n'))' adds for
\* the text made of the lines in seq: nothing for an empty text; otherwise
\* the lines without the trailing blank ones, which is one blank line when
\* all are blank.
RStripSplit(seq) ==
  IF seq = <<>> THEN <<>>
  ELSE IF RStrip(seq) = <<>> THEN <<"">>
  ELSE RStrip(seq)

\* The record built when the launch of the child raises.
LaunchFailure ==
  IF executor = "chain"
  THEN ProcessResult(TIMEOUT_EXIT, <<>>, <<"Error executing command">>)
  ELSE ProcessResult(1, <<>>, <<"Exception while executing command">>)

\* Lines 1098-1110 of AgentTerminal.execute_command: a directory change is
\* made by change_directory and its record returned.
AgentChangeDirectory ==
  /\ xpc = "start"
  /\ executor = "agent"
  /\ IsDirectoryChange(command)
  /\ context' = ChangeDirectoryContext(context, command)
  /\ Return(ChangeDirectoryResult(context', command))
  /\ UNCHANGED <<executor, child, deadline, stdout_pipe, stderr_pipe,
                 stdout_buf, stderr_buf, stdout_lines, stderr_lines,
                 remaining_stdout, remaining_stderr, clock, sigints>>
  /\ UNCHANGED <<auto_run, oracle_available, confirmation, plan_answer,
                 pc, main_task, is_check_installation, nsubtasks,
                 planned, i, is_program_related, commands, j, command,
                 all_success, main_task_objective_achieved, result, success,
                 next_action, oracle_ok, nexec, interrupts, retries>>
  /\ UNCHANGED cvars

\* subprocess.Popen: the child is spawned, or the launch raises and the
\* executor's 'except Exception' builds the record.
Popen ==
  /\ xpc = "start"
  /\ ~(executor = "agent" /\ IsDirectoryChange(command))
  /\ \/ /\ child' = [child EXCEPT !.alive = TRUE]
        /\ xpc' = IF executor \in {"assistant", "chain"}
                  THEN "communicate" ELSE "loop"
        /\ deadline' = IF executor \in {"assistant", "chain"}
                       THEN clock + Timeout ELSE deadline
        /\ UNCHANGED xresult
     \/ /\ Return(LaunchFailure)
        /\ UNCHANGED <<child, deadline>>
  /\ UNCHANGED <<executor, stdout_pipe, stderr_pipe, stdout_buf, stderr_buf,
                 stdout_lines, stderr_lines, remaining_stdout,
                 remaining_stderr, clock, sigints>>
  /\ UNCHANGED <<ovars, cvars>>

\* The child writes its next line to stdout; the write blocks while the pipe
\* is full.
ChildWriteStdout ==
  /\ child.alive
  /\ child.w_out < child.n_out
  /\ Len(stdout_pipe) < PipeCapacity
  /\ stdout_pipe' = Append(stdout_pipe, OutLines[child.w_out + 1])
  /\ child' = [child EXCEPT !.w_out = @ + 1]
  /\ UNCHANGED <<executor, xpc, stderr_pipe, stdout_buf, stderr_buf,
                 stdout_lines, stderr_lines, remaining_stdout,
                 remaining_stderr, clock, deadline, xresult, sigints>>
  /\ UNCHANGED <<ovars, cvars>>

\* The child writes its next line to stderr; the write blocks while the pipe
\* is full.
ChildWriteStderr ==
  /\ child.alive
  /\ child.w_err < child.n_err
  /\ Len(stderr_pipe) < PipeCapacity
  /\ stderr_pipe' = Append(stderr_pipe, ErrLines[child.w_err + 1])
  /\ child' = [child EXCEPT !.w_err = @ + 1]
  /\ UNCHANGED <<executor, xpc, stdout_pipe, stdout_buf, stderr_buf,
                 stdout_lines, stderr_lines, remaining_stdout,
                 remaining_stderr, clock, deadline, xresult, sigints>>
  /\ UNCHANGED <<ovars, cvars>>

\* The child exits by itself, having written its lines.
ChildExit ==
  /\ child.alive
  /\ ~child.hangs
  /\ child.w_out = child.n_out
  /\ child.w_err = child.n_err
  /\ child' = [child EXCEPT !.alive = FALSE, !.exited = TRUE,
                            !.returncode = child.code]
  /\ UNCHANGED <<executor, xpc, stdout_pipe, stderr_pipe, stdout_buf,
                 stderr_buf, stdout_lines, stderr_lines, remaining_stdout,
                 remaining_stderr, clock, deadline, xresult, sigints>>
  /\ UNCHANGED <<ovars, cvars>>

\* select() reports a stream readable when its pipe holds data or is at its
\* end (the child has exited and the pipe is empty).
Readable(pipe) == pipe # <<>> \/ ~child.alive

\* The executor is at a point that takes no time: a wait that is over, or
\* code between two waits.
Urgent ==
  \/ xpc \in {"start", "returned", "loop"}
  \/ xpc = "select" /\ (Readable(stdout_pipe) \/ Readable(stderr_pipe))
  \/ xpc = "communicate" /\ (~child.alive \/ clock >= deadline)
  \/ xpc \in {"readline", "stderr"} /\ ~child.alive

\* A second passes.
Tick ==
  /\ ~Urgent
  /\ clock < MaxClock
  /\ clock' = clock + 1
  /\ UNCHANGED <<executor, xpc, child, stdout_pipe, stderr_pipe, stdout_buf,
                 stderr_buf, stdout_lines, stderr_lines, remaining_stdout,
                 remaining_stderr, deadline, xresult, sigints>>
  /\ UNCHANGED <<ovars, cvars>>

\* ---- AgentTerminal.execute_command (src/agent_terminal.py)
\* process.poll() at the top of the streaming loop: the loop is left once the
\* child has exited, and goes on to select() otherwise.
AgentLoop ==
  /\ executor = "agent"
  /\ xpc = "loop"
  /\ IF child.alive
     THEN /\ xpc' = "select"
          /\ UNCHANGED deadline
     ELSE /\ xpc' = "communicate"
          /\ deadline' = clock + COMMUNICATE_TIMEOUT
  /\ UNCHANGED <<executor, child, stdout_pipe, stderr_pipe, stdout_buf,
                 stderr_buf, stdout_lines, stderr_lines, remaining_stdout,
                 remaining_stderr, clock, xresult, sigints>>
  /\ UNCHANGED <<ovars, cvars>>

\* stream.readline() on a stream select() reported readable: the next line
\* the file object holds; when it holds none, everything in the pipe is read
\* into the file object and its first line is returned; at the end of the
\* stream no line is returned.
ReadlineLine(buf, pipe) ==
  IF buf # <<>> THEN <<Head(buf)>>
  ELSE IF pipe # <<>> THEN <<Head(pipe)>>
  ELSE <<>>

ReadlineBuf(buf, pipe) ==
  IF buf # <<>> THEN Tail(buf)
  ELSE IF pipe # <<>> THEN Tail(pipe)
  ELSE <<>>

ReadlinePipe(buf, pipe) == IF buf # <<>> THEN pipe ELSE <<>>

\* select() with its 0.1 s timeout and the reads of the streams it reports:
\* one line from each readable stream, then back to the top of the loop.
AgentSelect ==
  /\ executor = "agent"
  /\ xpc = "select"
  /\ IF Readable(stdout_pipe)
     THEN /\ stdout_lines' = stdout_lines \o ReadlineLine(stdout_buf, stdout_pipe)
          /\ stdout_buf' = ReadlineBuf(stdout_buf, stdout_pipe)
          /\ stdout_pipe' = ReadlinePipe(stdout_buf, stdout_pipe)
     ELSE UNCHANGED <<stdout_pipe, stdout_buf, stdout_lines>>
  /\ IF Readable(stderr_pipe)
     THEN /\ stderr_lines' = stderr_lines \o ReadlineLine(stderr_buf, stderr_pipe)
          /\ stderr_buf' = ReadlineBuf(stderr_buf, stderr_pipe)
          /\ stderr_pipe' = ReadlinePipe(stderr_buf, stderr_pipe)
     ELSE UNCHANGED <<stderr_pipe, stderr_buf, stderr_lines>>
  /\ xpc' = "loop"
  /\ UNCHANGED <<executor, child, remaining_stdout, remaining_stderr, clock,
                 deadline, xresult, sigints>>
  /\ UNCHANGED <<ovars, cvars>>

\* 'except Exception: break' of the streaming loop: reading raised (select()
\* does not take pipes on Windows), and the loop is left with the child
\* running.
AgentReadError ==
  /\ executor = "agent"
  /\ xpc = "select"
  /\ child.alive
  /\ xpc' = "communicate"
  /\ deadline' = clock + COMMUNICATE_TIMEOUT
  /\ UNCHANGED <<executor, child, stdout_pipe, stderr_pipe, stdout_buf,
                 stderr_buf, stdout_lines, stderr_lines, remaining_stdout,
                 remaining_stderr, clock, xresult, sigints>>
  /\ UNCHANGED <<ovars, cvars>>

\* KeyboardInterrupt inside the streaming loop: the child is terminated and
\* the record carries the lines read so far.
AgentInterrupt ==
  /\ executor = "agent"
  /\ xpc \in {"loop", "select"}
  /\ sigints < MaxInterrupts
  /\ sigints' = sigints + 1
  /\ child' = Signalled(child, SIGTERM_RETURNCODE)
  /\ Return(ProcessResult(SIGINT_EXIT, stdout_lines,
                          Append(stderr_lines, "Command interrupted by user")))
  /\ UNCHANGED <<executor, stdout_pipe, stderr_pipe, stdout_buf, stderr_buf,
                 stdout_lines, stderr_lines, remaining_stdout,
                 remaining_stderr, clock, deadline>>
  /\ UNCHANGED <<ovars, cvars>>

\* process.communicate() at work: it reads what is in the pipes, both of them,
\* for as long as it waits for the child.
CommunicateDrain ==
  /\ executor \in {"agent", "assistant", "chain"}
  /\ xpc = "communicate"
  /\ stdout_pipe # <<>> \/ stderr_pipe # <<>>
  /\ remaining_stdout' = remaining_stdout \o stdout_pipe
  /\ remaining_stderr' = remaining_stderr \o stderr_pipe
  /\ stdout_pipe' = <<>>
  /\ stderr_pipe' = <<>>
  /\ UNCHANGED <<executor, xpc, child, stdout_buf, stderr_buf, stdout_lines,
                 stderr_lines, clock, deadline, xresult, sigints>>
  /\ UNCHANGED <<ovars, cvars>>

\* communicate() returns: the child has exited and both pipes are read to
\* their end.
CommunicateDone == ~child.alive /\ stdout_pipe = <<>> /\ stderr_pipe = <<>>

\* communicate() raises TimeoutExpired.
CommunicateTimeout == child.alive /\ clock >= deadline

\* process.communicate(timeout=5) after the loop: the rest of the output is
\* added to the lines read by the loop; on TimeoutExpired the child is
\* killed, what communicate() had read is dropped, and the child's return
\* code is the exit code of the record.
AgentCommunicate ==
  /\ executor = "agent"
  /\ xpc = "communicate"
  /\ \/ /\ CommunicateDone
        /\ LET out == stdout_lines \o RStripSplit(remaining_stdout)
               err == stderr_lines \o RStripSplit(remaining_stderr)
           IN /\ stdout_lines' = out
              /\ stderr_lines' = err
              /\ Return(ProcessResult(child.returncode, out, err))
        /\ UNCHANGED <<child, stdout_pipe, stderr_pipe>>
     \/ /\ CommunicateTimeout
        /\ child' = Signalled(child, SIGKILL_RETURNCODE)
        /\ stdout_pipe' = <<>>
        /\ stderr_pipe' = <<>>
        /\ LET err == Append(stderr_lines, "Command timed out and was terminated")
           IN /\ stderr_lines' = err
              /\ Return(ProcessResult(SIGKILL_RETURNCODE, stdout_lines, err))
        /\ UNCHANGED stdout_lines
  /\ UNCHANGED <<executor, stdout_buf, stderr_buf, remaining_stdout,
                 remaining_stderr, clock, deadline, sigints>>
  /\ UNCHANGED <<ovars, cvars>>

\* KeyboardInterrupt outside the streaming loop (during communicate): the
\* outer handler builds a record with an empty stdout and leaves the child
\* alone.
AgentInterruptCommunicate ==
  /\ executor = "agent"
  /\ xpc = "communicate"
  /\ sigints < MaxInterrupts
  /\ sigints' = sigints + 1
  /\ Return(ProcessResult(SIGINT_EXIT, <<>>,
                          <<"Command execution interrupted by user">>))
  /\ UNCHANGED <<executor, child, stdout_pipe, stderr_pipe, stdout_buf,
                 stderr_buf, stdout_lines, stderr_lines, remaining_stdout,
                 remaining_stderr, clock, deadline>>
  /\ UNCHANGED <<ovars, cvars>>

\* ---- TerminalAIAssistant.execute_command (src/terminal_ai_assistant.py)
\* process.communicate(timeout=config["timeout"]): the whole output once the
\* child has exited; on TimeoutExpired the child is killed and the record
\* carries -1 and no output.
AssistantCommunicate ==
  /\ executor = "assistant"
  /\ xpc = "communicate"
  /\ \/ /\ CommunicateDone
        /\ Return(ProcessResult(child.returncode, remaining_stdout,
                                remaining_stderr))
        /\ UNCHANGED <<child, stdout_pipe, stderr_pipe>>
     \/ /\ CommunicateTimeout
        /\ child' = Signalled(child, SIGKILL_RETURNCODE)
        /\ stdout_pipe' = <<>>
        /\ stderr_pipe' = <<>>
        /\ Return(ProcessResult(TIMEOUT_EXIT, <<>>, <<"Command timed out">>))
  /\ UNCHANGED <<executor, stdout_buf, stderr_buf, stdout_lines, stderr_lines,
                 remaining_stdout, remaining_stderr, clock, deadline, sigints>>
  /\ UNCHANGED <<ovars, cvars>>

\* ---- CommandChain._execute_command (src/utils/command_chain.py)
\* process.communicate(timeout=step.timeout): the whole output once the child
\* has exited; on TimeoutExpired the child is killed and the record carries
\* -1 and no output.
ChainCommunicate ==
  /\ executor = "chain"
  /\ xpc = "communicate"
  /\ \/ /\ CommunicateDone
        /\ Return(ProcessResult(child.returncode, remaining_stdout,
                                remaining_stderr))
        /\ UNCHANGED <<child, stdout_pipe, stderr_pipe>>
     \/ /\ CommunicateTimeout
        /\ child' = Signalled(child, SIGKILL_RETURNCODE)
        /\ stdout_pipe' = <<>>
        /\ stderr_pipe' = <<>>
        /\ Return(ProcessResult(TIMEOUT_EXIT, <<>>, <<"Command timed out">>))
  /\ UNCHANGED <<executor, stdout_buf, stderr_buf, stdout_lines, stderr_lines,
                 remaining_stdout, remaining_stderr, clock, deadline, sigints>>
  /\ UNCHANGED <<ovars, cvars>>

\* ---- TerminalAIAssistant.stream_command_output
\* The top of the loop: past max_execution_time the child is killed and the
\* record carries -1 and the lines read so far; otherwise the loop goes on to
\* read a line.
StreamCheck ==
  /\ executor = "stream"
  /\ xpc = "loop"
  /\ IF clock > Timeout
     THEN /\ child' = Signalled(child, SIGKILL_RETURNCODE)
          /\ Return(ProcessResult(TIMEOUT_EXIT, stdout_lines, <<"Command timed out">>))
     ELSE /\ xpc' = "readline"
          /\ UNCHANGED <<child, xresult>>
  /\ UNCHANGED <<executor, stdout_pipe, stderr_pipe, stdout_buf, stderr_buf,
                 stdout_lines, stderr_lines, remaining_stdout,
                 remaining_stderr, clock, deadline, sigints>>
  /\ UNCHANGED <<ovars, cvars>>

\* process.stdout.readline(): it returns when a line is there, or at the end
\* of the stream once the child has exited; until then the executor is blocked.
StreamReadline ==
  /\ executor = "stream"
  /\ xpc = "readline"
  /\ \/ /\ stdout_buf # <<>> \/ stdout_pipe # <<>>
        /\ stdout_lines' = stdout_lines \o ReadlineLine(stdout_buf, stdout_pipe)
        /\ stdout_buf' = ReadlineBuf(stdout_buf, stdout_pipe)
        /\ stdout_pipe' = ReadlinePipe(stdout_buf, stdout_pipe)
        /\ xpc' = "loop"
     \/ /\ stdout_buf = <<>>
        /\ stdout_pipe = <<>>
        /\ ~child.alive
        /\ xpc' = "stderr"
        /\ UNCHANGED <<stdout_pipe, stdout_buf, stdout_lines>>
  /\ UNCHANGED <<executor, child, stderr_pipe, stderr_buf, stderr_lines,
                 remaining_stdout, remaining_stderr, clock, deadline, xresult,
                 sigints>>
  /\ UNCHANGED <<ovars, cvars>>

\* process.stderr.read() after the loop, and the record of the finished
\* command.
StreamStderr ==
  /\ executor = "stream"
  /\ xpc = "stderr"
  /\ ~child.alive
  /\ Return(ProcessResult(child.returncode, stdout_lines, stderr_pipe))
  /\ stderr_pipe' = <<>>
  /\ UNCHANGED <<executor, child, stdout_pipe, stdout_buf, stderr_buf,
                 stdout_lines, stderr_lines, remaining_stdout,
                 remaining_stderr, clock, deadline, sigints>>
  /\ UNCHANGED <<ovars, cvars>>

NextExec ==
  \/ AgentChangeDirectory
  \/ Popen
  \/ ChildWriteStdout
  \/ ChildWriteStderr
  \/ ChildExit
  \/ Tick
  \/ AgentLoop
  \/ AgentSelect
  \/ AgentReadError
  \/ AgentInterrupt
  \/ CommunicateDrain
  \/ AgentCommunicate
  \/ AgentInterruptCommunicate
  \/ AssistantCommunicate
  \/ ChainCommunicate
  \/ StreamCheck
  \/ StreamReadline
  \/ StreamStderr

SpecExec == InitExec /\ [][NextExec]_vars

\* ------------------------------------------- operations on an AgentContext
InitCtx == Init /\ auto_run = FALSE /\ oracle_available

\* context.start_task(description)
CallStartTask ==
  /\ Len(context.tasks) < MaxTasks
  /\ context' = start_task(context)
  /\ UNCHANGED <<auto_run, oracle_available, confirmation, plan_answer,
                 pc, main_task, is_check_installation, nsubtasks,
                 planned, i, is_program_related, commands, j, command,
                 all_success, main_task_objective_achieved, result, success,
                 next_action, oracle_ok, nexec, interrupts, retries>>
  /\ UNCHANGED <<xvars, cvars>>

\* context.start_subtask(description)
CallStartSubtask ==
  /\ Len(context.tasks) < MaxTasks
  /\ context' = start_subtask(context)
  /\ UNCHANGED <<auto_run, oracle_available, confirmation, plan_answer,
                 pc, main_task, is_check_installation, nsubtasks,
                 planned, i, is_program_related, commands, j, command,
                 all_success, main_task_objective_achieved, result, success,
                 next_action, oracle_ok, nexec, interrupts, retries>>
  /\ UNCHANGED <<xvars, cvars>>

\* context.complete_current_task(output)
CallCompleteCurrentTask ==
  /\ context' = complete_current_task(context, "Completed successfully")
  /\ UNCHANGED <<auto_run, oracle_available, confirmation, plan_answer,
                 pc, main_task, is_check_installation, nsubtasks,
                 planned, i, is_program_related, commands, j, command,
                 all_success, main_task_objective_achieved, result, success,
                 next_action, oracle_ok, nexec, interrupts, retries>>
  /\ UNCHANGED <<xvars, cvars>>

\* context.fail_current_task(error)
CallFailCurrentTask ==
  /\ context' = fail_current_task(context, "Command execution failed")
  /\ UNCHANGED <<auto_run, oracle_available, confirmation, plan_answer,
                 pc, main_task, is_check_installation, nsubtasks,
                 planned, i, is_program_related, commands, j, command,
                 all_success, main_task_objective_achieved, result, success,
                 next_action, oracle_ok, nexec, interrupts, retries>>
  /\ UNCHANGED <<xvars, cvars>>

\* Lines 413-416 of handle_conversation: 'cd <path>' typed at the prompt.
CallChangeDirectory ==
  /\ \E user_input \in DOMAIN Chars :
       /\ startswith(Chars[user_input], <<"c", "d", " ">>)
       /\ context' = change_directory(context, cd_path(user_input))
  /\ UNCHANGED <<auto_run, oracle_available, confirmation, plan_answer,
                 pc, main_task, is_check_installation, nsubtasks,
                 planned, i, is_program_related, commands, j, command,
                 all_success, main_task_objective_achieved, result, success,
                 next_action, oracle_ok, nexec, interrupts, retries>>
  /\ UNCHANGED <<xvars, cvars>>

NextCtx ==
  \/ CallStartTask
  \/ CallStartSubtask
  \/ CallCompleteCurrentTask
  \/ CallFailCurrentTask
  \/ CallChangeDirectory

SpecCtx == InitCtx /\ [][NextCtx]_vars

\* ------------------------------------------------------------ CommandChain
\* The conditions of a step: none, the shorthands 'success' and 'error', and
\* 'exit_code <op> <int>'.
Ops == {"==", "!=", "<", ">", "<=", ">="}

Conditions ==
  {[kind |-> k, op |-> "", value |-> 0] : k \in {"none", "success", "error"}}
  \cup {[kind |-> "exit_code", op |-> o, value |-> 0] : o \in Ops}

\* The exit codes _execute_command reports for a step: those of the child,
\* and the one of a timeout or a failed launch.
ChainExitCodes == ExitCodes \cup {TIMEOUT_EXIT}

\* CommandStep.__init__: the step named name.  result is None (<<>>) or
\* <<the record>>, the exit code of a record is None (<<>>) or <<the code>>.
CommandStep(name, condition) ==
  [name |-> name, condition |-> condition, status |-> "pending",
   result |-> <<>>]

\* self.steps[-2]
prev_step(stps) == stps[Len(stps) - 1]

\* exit_code <op> int(value) on integers
Compare(op, a, b) ==
  CASE op = "==" -> a = b
    [] op = "!=" -> a # b
    [] op = "<" -> a < b
    [] op = ">" -> a > b
    [] op = "<=" -> a <= b
    [] op = ">=" -> a >= b

\* evaluate_condition raises TypeError: an ordering comparison of None, the
\* exit code of a skipped step, with an integer.
raises_TypeError(condition, stps) ==
  /\ condition.kind = "exit_code"
  /\ Len(stps) >= 2
  /\ prev_step(stps).result # <<>>
  /\ prev_step(stps).result[1].exit_code = <<>>
  /\ condition.op \notin {"==", "!="}

\* CommandChain.evaluate_condition(condition), where it returns.
evaluate_condition(condition, stps) ==
  CASE condition.kind = "none" -> TRUE
    [] condition.kind = "success" ->
         IF Len(stps) < 2 THEN TRUE ELSE prev_step(stps).status = "success"
    [] condition.kind = "error" ->
         IF Len(stps) < 2 THEN FALSE ELSE prev_step(stps).status = "error"
    [] condition.kind = "exit_code" ->
         IF Len(stps) < 2 THEN FALSE
         ELSE IF prev_step(stps).result = <<>> THEN FALSE
         ELSE LET exit_code == prev_step(stps).result[1].exit_code
              IN IF exit_code = <<>> THEN condition.op = "!="
                 ELSE Compare(condition.op, exit_code[1], condition.value)

\* A chain of up to MaxSteps steps has been built with add_step.
InitChain ==
  /\ InitTask
  /\ command = ""
  /\ auto_run = FALSE
  /\ oracle_available
  /\ NoExecution
  /\ \E n \in 0..MaxSteps : \E conds \in [1..n -> Conditions] :
       chain = NewChain([k \in 1..n |-> CommandStep(k, conds[k])])

\* Lines 172-177: CommandChain.execute(fail_fast) is called.
ChainExecute ==
  /\ cpc \in {"idle", "returned", "raised"}
  /\ runs < MaxRuns
  /\ \E ff \in BOOLEAN :
       chain' = [chain EXCEPT !.fail_fast = ff, !.results = <<>>,
                              !.any_errors = FALSE, !.ci = 1,
                              !.cpc = "loop", !.runs = runs + 1]
  /\ UNCHANGED <<ovars, xvars>>

\* Lines 183 and 205-212: the step as it is left skipped, and as it is left
\* by a command that ended with code.
Skipped(step) ==
  [step EXCEPT !.status = "skipped",
               !.result = <<[exit_code |-> <<>>,
                             stderr |-> "Step skipped due to condition"]>>]

Ran(step, code) ==
  [step EXCEPT !.status = IF code = 0 THEN "success" ELSE "error",
               !.result = <<[exit_code |-> <<code>>,
                             stderr |-> ExitStderr(code)]>>]

\* Lines 177-226: one entry of the step loop.
ChainStep ==
  /\ cpc = "loop"
  /\ ci <= Len(steps)
  /\ LET step == steps[ci] IN
     IF raises_TypeError(step.condition, steps)
     THEN chain' = [chain EXCEPT !.cpc = "raised"]
     ELSE IF ~evaluate_condition(step.condition, steps)
     THEN chain' = [chain EXCEPT !.steps[ci] = Skipped(step),
                                 !.results = Append(@, Skipped(step)),
                                 !.ci = ci + 1]
     ELSE \E code \in ChainExitCodes :
            chain' = [chain EXCEPT
                        !.steps[ci] = Ran(step, code),
                        !.results = Append(@, Ran(step, code)),
                        !.any_errors = (@ \/ code # 0),
                        !.cpc = IF fail_fast /\ code # 0 THEN "break" ELSE @,
                        !.ci = IF fail_fast /\ code # 0 THEN @ ELSE @ + 1]
  /\ UNCHANGED <<ovars, xvars>>

\* The number of the steps of the chain in one of the statuses.
CountSteps(statuses) ==
  Cardinality({k \in 1..Len(steps) : steps[k].status \in statuses})

\* Lines 228-242: the loop is over and the report returned.
ChainReturn ==
  /\ \/ cpc = "break"
     \/ cpc = "loop" /\ ci > Len(steps)
  /\ chain' =
       [chain EXCEPT
          !.cpc = "returned",
          !.report =
            [steps |-> results, success |-> ~any_errors,
             steps_total |-> Len(steps),
             steps_executed |->
               CountSteps({"running", "success", "error", "skipped"}),
             steps_successful |-> CountSteps({"success"}),
             steps_failed |-> CountSteps({"error"}),
             steps_skipped |-> CountSteps({"skipped"})]]
  /\ UNCHANGED <<ovars, xvars>>

NextChain ==
  \/ ChainExecute
  \/ ChainStep
  \/ ChainReturn

SpecChain == InitChain /\ [][NextChain]_vars

\* ------------------------------------------------------------------ claims
Returned == pc \in {"ret_cancel", "ret_abort", "ret_nocontinue", "ret_end"}

Status(id) == context.tasks[id].status

\* The subtask the orchestrator is in (the current task of the context).
ActiveTask == context.current_task

\* The verdict under decision reports failure with the directive 'abort'.
AbortVerdict == pc = "decide" /\ ~success /\ next_action.action = "abort"

\* C1: when the verdict of a command reports failure with next-action
\* 'abort', the root task is marked failed at once and process_user_task
\* returns: no further command and no further subtask is executed.
C1_AbortFailsRootTask ==
  /\ [][AbortVerdict =>
          /\ context'.tasks[main_task].status = "failed"
          /\ Returned'
          /\ nexec' = nexec]_vars
  /\ [][~Returned]_vars

\* C2: when process_user_task returns after running a plan, the root task is
\* 'failed' if the task was aborted, 'completed' if the last executed subtask
\* succeeded or the early exit fired, and 'failed' if the last executed subtask
\* failed and no continuation was approved.
C2_TerminalStatus ==
  (Returned /\ pc # "ret_cancel") =>
    LET subs == context.tasks[main_task].subtasks
        last == subs[Len(subs)]
    IN IF pc = "ret_abort"
       THEN Status(main_task) = "failed"
       ELSE IF main_task_objective_achieved \/ Status(last) = "completed"
       THEN Status(main_task) = "completed"
       ELSE Status(main_task) = "failed"

\* The verdict under decision reports failure with the directive 'skip'.
SkipVerdict == pc = "decide" /\ ~success /\ next_action.action = "skip"

\* C3: on the directive 'skip' the remaining commands of the current subtask
\* are not executed, the subtask is not marked failed, and execution proceeds
\* to the next subtask of the plan (or to the end of the plan).
C3_SkipAbandonsSubtask ==
  [][SkipVerdict =>
       /\ pc' \in {"subtask_loop", "ret_end"}
       /\ context'.tasks[ActiveTask].status # "failed"
       /\ nexec' = nexec]_vars

\* The effect of the orchestrator's Continue: the command loop goes on, and
\* nothing is counted as failed.
ContinueEffect ==
  /\ j' = j + 1
  /\ pc' \in {"command_loop", "subtask_end"}
  /\ all_success' = all_success
  /\ context' = context

\* The effect of the orchestrator's Skip, as on an explicit 'skip' directive.
SkipEffect ==
  /\ j' = j + 1
  /\ pc' \in {"command_loop", "subtask_end"}
  /\ context' = context

\* C4: when the Oracle's verify response carries no next_action directive, the
\* orchestrator continues if the exit code is 0 and skips otherwise; a task is
\* never aborted unless the verdict carries an explicit 'abort'.
C4_NoDirectiveNeverAborts ==
  /\ [][(pc = "decide" /\ oracle_ok /\ next_action.action = None) =>
          IF result.exit_code = 0 THEN ContinueEffect ELSE SkipEffect]_vars
  /\ [][(pc = "decide" /\ pc' = "ret_abort") => next_action.action = "abort"]_vars

\* Exit codes of a result record, with the timeout sentinel (-1) and the
\* interrupt sentinel.
SentinelCodes == {0, 1, 0 - 1, SIGINT_EXIT, 0 - 9}

StructuralVerdict(v, code) ==
  /\ v.success = (code = 0)
  /\ v.next_action.action = (IF code = 0 THEN "continue" ELSE "skip")

\* C5: when the Oracle verify call fails, verify_command_execution returns
\* success = (exit code = 0) with next-action 'continue' on success and 'skip'
\* on failure, never 'abort', for every exit code.
C5_StructuralFallbackVerdict ==
  /\ (pc = "decide" /\ ~oracle_ok) =>
        StructuralVerdict([success |-> success, next_action |-> next_action],
                          result.exit_code)
  /\ pc = "decide" =>
        \A code \in SentinelCodes :
          StructuralVerdict(
            verify_command_execution([result EXCEPT !.exit_code = code],
                                     OracleFailure), code)

C5_Witness ==
  /\ pc = "decide" /\ ~oracle_ok
  /\ result.exit_code = SIGINT_EXIT
  /\ next_action.action = "skip"

\* A measure of the work left in the call: the subtasks left, then the
\* commands left in the subtask, then the steps left on the command.
RankSpan == 5 * (MaxPlanCmds + 1) + 2

Rank ==
  IF pc = "idle" THEN RankSpan * (MaxSubtasks + 2) + 3
  ELSE IF pc = "plan" THEN RankSpan * (MaxSubtasks + 2) + 2
  ELSE IF pc = "approval" THEN RankSpan * (MaxSubtasks + 2) + 1
  ELSE IF pc = "confirm" THEN RankSpan * (MaxSubtasks + 2)
  ELSE IF Returned \/ pc = "raised" THEN 0
  ELSE IF pc = "subtask_loop" THEN RankSpan * (nsubtasks - i + 1)
  ELSE IF pc = "generate" THEN RankSpan * (nsubtasks - i + 1) - 1
  ELSE RankSpan * (nsubtasks - i) + 1 +
       (IF pc = "subtask_end" THEN 0
        ELSE 5 * (Len(commands) - j) +
             (CASE pc = "command_loop" -> 5
                [] pc = "verify" -> 4
                [] pc = "decide" -> 3
                [] pc = "fallback_exec" -> 2
                [] pc = "fallback_verify" -> 1))

\* C6: at most one fallback command is executed per command of the plan (the
\* verdict on a fallback triggers no further execution), so a plan with K
\* commands causes at most 2*K executions, and every step of the call brings
\* it closer to its return.
C6_OneFallbackPerCommand ==
  /\ [](nexec <= 2 * planned /\ Rank >= 0)
  /\ [][pc = "fallback_verify" =>
          nexec' = nexec /\ pc' \in {"command_loop", "subtask_end"}]_vars
  /\ [][Rank' < Rank]_vars

C6_Witness ==
  /\ Returned
  /\ retries >= 1
  /\ nexec = 2 * planned

\* C7: the fallback command executed after a failed command is never
\* textually equal to the command that failed.
C7_FallbackDiffers ==
  pc = "fallback_verify" => command # commands[j]

\* A user interrupt arrives while a command is executing.
InterruptedExecution == nexec' = nexec + 1 /\ interrupts' = interrupts + 1

\* C8: when an interrupt arrives while a command of a subtask is executing,
\* the active TaskState becomes 'failed' with reason 'cancelled by user', the
\* interrupted command is not verified, and no further command is executed.
C8_InterruptCancelsTask ==
  /\ [][InterruptedExecution =>
          /\ context'.tasks[ActiveTask].status = "failed"
          /\ context'.tasks[ActiveTask].error = "cancelled by user"
          /\ Returned']_vars
  /\ [][result.exit_code = SIGINT_EXIT => nexec' = nexec]_vars

\* The lines of seq come first in text, in order.
StartsWith(text, seq) ==
  /\ Len(seq) <= Len(text)
  /\ SubSeq(text, 1, Len(seq)) = seq

\* C9: when an interrupt arrives at any point of AgentTerminal.execute_command
\* (while streaming or while collecting the remaining output) before the
\* command has completed, the child process is terminated and the returned
\* record has exit code 130 and retains every stdout and stderr line read up
\* to that moment.
C9_InterruptKeepsOutput ==
  [][(executor = "agent" /\ sigints' = sigints + 1 /\ child.alive) =>
       /\ xpc' = "returned"
       /\ ~child'.alive
       /\ xresult'.exit_code = SIGINT_EXIT
       /\ xresult'.stdout = stdout_lines
       /\ StartsWith(xresult'.stderr, stderr_lines)]_vars

\* The executor has returned from a child that did not exit within the
\* configured timeout (and was not interrupted).
TimedOut ==
  /\ xpc = "returned"
  /\ sigints = 0
  /\ ~child.exited
  /\ clock >= Timeout

\* C10: every executor (AgentTerminal.execute_command,
\* TerminalAIAssistant.execute_command, stream_command_output) kills a child
\* that does not exit within the configured timeout and returns exit code -1
\* with the child no longer running, and none waits longer than the timeout
\* (one second of tolerance).
C10_TimeoutKillsChild ==
  /\ xpc \in {"loop", "select", "readline", "communicate", "stderr"} =>
       clock <= Timeout + 1
  /\ TimedOut => (xresult.exit_code = TIMEOUT_EXIT /\ ~child.alive)

\* The lines the child has written to stdout and to stderr.
Produced(lines, written) == SubSeq(lines, 1, written)

\* C11: when a command times out in TerminalAIAssistant.execute_command,
\* stream_command_output or CommandChain._execute_command, the stdout and
\* stderr text the process produced before the deadline is in the returned
\* record.
C11_TimeoutKeepsOutput ==
  (TimedOut /\ executor \in {"assistant", "stream", "chain"}) =>
    /\ xresult.stdout = Produced(OutLines, child.w_out)
    /\ StartsWith(xresult.stderr, Produced(ErrLines, child.w_err))

\* C12: when starting the child process raises, AgentTerminal.execute_command,
\* TerminalAIAssistant.execute_command and CommandChain._execute_command each
\* return a record with exit code 1 and the error message in stderr.
C12_LaunchFailureRecord ==
  [][(executor \in {"agent", "assistant", "chain"}
      /\ xpc = "start" /\ xpc' = "returned") =>
       /\ xresult'.exit_code = 1
       /\ xresult'.stdout = <<>>
       /\ xresult'.stderr # <<>>]_vars

\* AgentTerminal.execute_command has returned the record of a child that
\* wrote all its lines and exited by itself, with no interrupt.
RanToCompletion ==
  /\ executor = "agent"
  /\ xpc = "returned"
  /\ sigints = 0
  /\ child.exited

\* C13: for a command that writes N lines to stdout and M lines to stderr in
\* any interleaving, the record returned by AgentTerminal.execute_command
\* holds exactly the N stdout lines and exactly the M stderr lines, each in
\* the order written, whenever the child exits relative to the reads.
C13_LinesPreserved ==
  RanToCompletion =>
    /\ xresult.stdout = Produced(OutLines, child.n_out)
    /\ xresult.stderr = Produced(ErrLines, child.n_err)

\* A step of the child.
ChildStep == ChildWriteStdout \/ ChildWriteStderr \/ ChildExit

\* A step of the executor other than an interrupt, a read error or a timeout
\* of communicate().
ExecutorStep ==
  \/ AgentLoop
  \/ AgentSelect
  \/ CommunicateDrain
  \/ (CommunicateDone /\ (AgentCommunicate \/ AssistantCommunicate
                          \/ ChainCommunicate))
  \/ StreamCheck
  \/ StreamReadline
  \/ StreamStderr

\* The child is running and still has lines to write.
ChildWriting ==
  /\ child.alive
  /\ child.w_out < child.n_out \/ child.w_err < child.n_err

\* C14: a command that fills the pipe of one stream while the other stream is
\* open cannot block the executor: while the child has lines to write, the
\* child can write or the executor can go on, in stream_command_output and in
\* AgentTerminal.execute_command.
C14_NoDeadlock ==
  (executor \in {"stream", "agent"} /\ xpc # "returned" /\ ChildWriting) =>
    (ENABLED ChildStep \/ ENABLED ExecutorStep)

\* The TaskState objects constructed so far.
Tasks == 1..Len(context.tasks)

\* The step completes or fails the current task.
TerminatesCurrent ==
  /\ context.current_task # NoTask
  /\ \/ context' = complete_current_task(context, "Completed successfully")
     \/ context' = fail_current_task(context, "Command execution failed")

\* C15: complete_current_task and fail_current_task applied to a subtask move
\* the current-task pointer to exactly that subtask's parent; applied to a
\* root task they leave the pointer null.
C15_PointerReturnsToParent ==
  [][TerminatesCurrent =>
       context'.current_task = context.tasks[context.current_task].parent_task]_vars

\* The root of the task tree of TaskState n.
RECURSIVE RootOf(_)
RootOf(n) ==
  IF context.tasks[n].parent_task = NoTask THEN n
  ELSE RootOf(context.tasks[n].parent_task)

\* TaskState n is the k-th subtask of its parent and carries the id made of
\* the parent's id, a dot and k.
IdFollowsParent(n) ==
  LET p == context.tasks[n].parent_task
  IN \E k \in 1..Len(context.tasks[p].subtasks) :
       /\ context.tasks[p].subtasks[k] = n
       /\ \A l \in 1..Len(context.tasks[p].subtasks) :
            context.tasks[p].subtasks[l] = n => l = k
       /\ context.tasks[n].task_id =
            context.tasks[p].task_id \o "." \o ToString(k)

\* C16: after any sequence of start_task, start_subtask,
\* complete_current_task and fail_current_task, every subtask's id is its
\* parent's id followed by '.' and its 1-based position among its siblings,
\* no two nodes of a task tree share an id, and an id never changes.
C16_SubtaskIds ==
  /\ [](\A n \in Tasks :
          /\ context.tasks[n].parent_task # NoTask => IdFollowsParent(n)
          /\ \A m \in Tasks :
               (m # n /\ RootOf(m) = RootOf(n)) =>
                 context.tasks[m].task_id # context.tasks[n].task_id)
  /\ [][\A n \in Tasks :
          context'.tasks[n].task_id = context.tasks[n].task_id]_vars

C16_Witness ==
  \E m, n \in Tasks :
    /\ context.tasks[m].task_id = "1.1.1"
    /\ context.tasks[n].task_id = "1.2"

\* C17: a TaskState with status completed or failed has its end time set, and
\* one with status in_progress has its start time set and its end time unset.
C17_StatusAndTimes ==
  \A n \in Tasks :
    LET t == context.tasks[n]
    IN /\ t.status \in {"completed", "failed"} => t.end_time # None
       /\ t.status = "in_progress" => (t.start_time # None /\ t.end_time = None)

C17_Witness ==
  \E l, m, n \in Tasks :
    /\ context.tasks[l].status = "completed"
    /\ context.tasks[m].status = "failed"
    /\ context.tasks[n].status = "in_progress"

\* C18: once the status of a TaskState is completed or failed, its status,
\* end time, output and error never change again.
C18_TerminalStatusIsFinal ==
  [][\A n \in Tasks :
       context.tasks[n].status \in {"completed", "failed"} =>
         /\ context'.tasks[n].status = context.tasks[n].status
         /\ context'.tasks[n].end_time = context.tasks[n].end_time
         /\ context'.tasks[n].output = context.tasks[n].output
         /\ context'.tasks[n].error = context.tasks[n].error]_vars

\* C19: each command executed by execute_command while a task is current
\* appends exactly one record to the command log of the current TaskState and
\* exactly one to the global command log of the context.
C19_OneRecordPerCommand ==
  [][(nexec' = nexec + 1 /\ ActiveTask # NoTask) =>
       /\ Len(context'.command_history) = Len(context.command_history) + 1
       /\ Len(context'.tasks[ActiveTask].command_history) =
            Len(context.tasks[ActiveTask].command_history) + 1]_vars

\* C20: the recent-error list is a bounded ring: a new entry is put first,
\* the older entries follow in their order, and the list never grows beyond
\* its capacity, the oldest entry being dropped.
C20_RecentErrorsRing ==
  [][context'.recent_errors # context.recent_errors =>
       /\ Len(context'.recent_errors) <= RECENT_ERRORS_WINDOW
       /\ context'.recent_errors[1] = <<command', result'.stderr>>
       /\ \A k \in 2..Len(context'.recent_errors) :
            context'.recent_errors[k] = context.recent_errors[k - 1]]_vars

\* A subtask has failed and further subtasks remain.
FailedWithMoreToDo == pc = "subtask_end" /\ ~all_success /\ i < nsubtasks

\* C21: when a subtask fails and further subtasks remain, either the Oracle
\* declines to continue and the whole task is aborted (the root task is
\* marked failed, the call returns and no further subtask is started), or it
\* accepts and the next subtask is executed (unless the objective of the task
\* was achieved already); a failed subtask stays failed for the rest of the
\* run.
C21_ContinuationDecision ==
  /\ [][FailedWithMoreToDo =>
          \/ /\ Returned'
             /\ context'.tasks[main_task].status = "failed"
             /\ Len(context'.tasks) = Len(context.tasks)
          \/ /\ pc' = "subtask_loop"
             /\ i' = i + 1
             /\ context'.tasks[ActiveTask].status = "failed"
          \/ /\ main_task_objective_achieved
             /\ pc' = "ret_end"]_vars
  /\ [][\A n \in Tasks :
          (n # main_task /\ Status(n) = "failed") =>
            context'.tasks[n].status = "failed"]_vars

\* The texts process_user_task takes for the result of the task
\* (main_task_result), the last one standing for the Oracle's summary.
MainTaskResults ==
  {"Files sorted successfully", "is already installed", "Program is installed",
   "Program verification complete - Program is installed", "Task complete"}

\* C22: after a subtask completes successfully with the objective of the
\* task reported achieved, the remaining subtasks are not executed and the
\* root task is marked completed with the reported summary as its output.
C22_EarlyExitStoresSummary ==
  [][(pc = "subtask_end" /\ all_success /\ i < nsubtasks
      /\ main_task_objective_achieved') =>
       /\ pc' = "ret_end"
       /\ Len(context'.tasks) = Len(context.tasks)
       /\ context'.tasks[main_task].status = "completed"
       /\ context'.tasks[main_task].output \in MainTaskResults]_vars

C24_NoExceptionPropagates == pc # "raised"

C26_DirectiveWins ==
  /\ [][(pc = "decide" /\ oracle_ok /\ next_action.action = "abort") =>
          pc' = "ret_abort"]_vars
  /\ [][(pc = "decide" /\ oracle_ok /\ next_action.action = "continue") =>
          (j' = j + 1 /\ pc' \in {"command_loop", "subtask_end"})]_vars

\* The user rejects the plan at the approval gate.
Rejected == pc = "confirm" /\ lower(confirmation) = "n"

\* C27: at the approval gate (auto-run disabled) a rejecting answer fails the
\* root task at once with the reason 'User cancelled task' and the call
\* returns: no subtask is created, no command is executed, and the command
\* logs are unchanged.
C27_RejectCancelsTask ==
  /\ [][Rejected =>
          /\ pc' = "ret_cancel"
          /\ context'.tasks[main_task].status = "failed"
          /\ context'.tasks[main_task].error = "User cancelled task"
          /\ Len(context'.tasks) = Len(context.tasks)
          /\ nexec' = nexec
          /\ context'.command_history = context.command_history
          /\ context'.tasks[main_task].command_history =
               context.tasks[main_task].command_history]_vars
  /\ [](pc = "ret_cancel" =>
          /\ Status(main_task) = "failed"
          /\ Len(context.tasks) = 1
          /\ nexec = 0
          /\ context.command_history = <<>>)
  /\ [][pc # "ret_cancel"]_vars

C27_Witness ==
  /\ ~auto_run
  /\ pc = "ret_cancel"
  /\ context.tasks[main_task].error = "User cancelled task"

\* C28: at the approval gate the answer 'modify' makes the orchestrator plan
\* again.
C28_ModifyPlansAgain ==
  [][(pc = "confirm" /\ lower(confirmation) = "modify") => pc' = "plan"]_vars

\* C29: a command that AgentTerminal.execute_command takes for a directory
\* change is handled in-process: the call returns at once with a record of
\* exit code 0 whose stdout is the message naming the current directory and
\* whose stderr is empty, and the child process is never spawned.
C29_DirectoryChangeInProcess ==
  /\ [][(executor = "agent" /\ xpc = "start" /\ IsDirectoryChange(command)) =>
          /\ xpc' = "returned"
          /\ child' = child
          /\ xresult'.exit_code = 0
          /\ xresult'.stdout =
               << <<"Changed directory to", context'.current_directory>> >>
          /\ xresult'.stderr = <<>>]_vars
  /\ []((executor = "agent" /\ IsDirectoryChange(command)) =>
          (~child.alive /\ ~child.exited))

C29_Witness ==
  /\ executor = "agent"
  /\ IsDirectoryChange(command)
  /\ xpc = "returned"
  /\ xresult.exit_code = 0
  /\ context.current_directory # getcwd

\* The step is change_directory on the path of cmd, called for a text typed
\* at the prompt or by execute_command.
DirectoryChangeStep(cmd) ==
  \/ /\ startswith(Chars[cmd], <<"c", "d", " ">>)
     /\ context' = change_directory(context, cd_path(cmd))
  \/ /\ IsDirectoryChange(cmd)
     /\ context' = ChangeDirectoryContext(context, cmd)

\* C30: current_directory is always an existing directory; a step that
\* changes it is a directory change to the path it is left at (so that task
\* start, completion and failure and the execution of any other command
\* leave it unchanged), and no directory change to a path that is no
\* existing directory changes it.
C30_DirectoryFrame ==
  /\ [](context.current_directory \in Directories)
  /\ [][context'.current_directory # context.current_directory =>
          /\ \E cmd \in DOMAIN Chars :
               /\ DirectoryChangeStep(cmd)
               /\ context'.current_directory =
                    new_path(context.current_directory, cd_path(cmd))
          /\ \A cmd \in DOMAIN Chars :
               DirectoryChangeStep(cmd) =>
                 new_path(context.current_directory, cd_path(cmd))
                   \in Directories]_vars

C30_Witness ==
  /\ context.current_directory = <<>>
  /\ context.current_task # NoTask
  /\ \E n \in Tasks : Status(n) = "completed"

\* Lines 96-129 of run_agent.main in execute mode: the exit status of the
\* process once process_user_input(command) has returned (line 112) or has
\* raised (line 125), the agent being constructed with auto_run=True.
main == IF pc = "raised" THEN 1 ELSE 0

\* The non-interactive invocation has run its task to the end of the call.
Exited == auto_run /\ (Returned \/ pc = "raised")

\* C31: the non-interactive invocation exits with status 0 if and only if
\* its task reached the status completed.
C31_ExitStatusTellsCompletion ==
  Exited => (main = 0 <=> Status(main_task) = "completed")

\* The chain [A; B with condition 'error'; C with condition 'success'].
ChainABC ==
  /\ Len(steps) = 3
  /\ steps[1].condition.kind = "none"
  /\ steps[2].condition.kind = "error"
  /\ steps[3].condition.kind = "success"

\* C32: in CommandChain.execute a step with the condition 'success' or
\* 'error' is executed exactly when the step immediately before it has that
\* status, and skipped otherwise; so a first run of the chain
\* [A; B if 'error'; C if 'success'] in which A fails executes B and ends
\* with C skipped.
C32_ConditionOnPreviousStep ==
  /\ [][(cpc = "loop" /\ 2 <= ci /\ ci <= Len(steps)
         /\ steps[ci].condition.kind \in {"success", "error"}) =>
          (steps'[ci].status = "skipped"
             <=> steps[ci - 1].status # steps[ci].condition.kind)]_vars
  /\ []((cpc = "returned" /\ runs = 1 /\ ChainABC
         /\ steps[1].status = "error") =>
          (steps[2].status \in {"success", "error"}
           /\ steps[3].status = "skipped"))

\* C33: in fail-fast mode CommandChain.execute leaves the step loop at the
\* first step that ends in error and executes no step after it; in
\* continue-through mode the run does not end before every step of the chain
\* has been processed, and its report holds the outcome of every step, in
\* the order of the chain.
C33_RunModes ==
  /\ [][(cpc = "loop" /\ fail_fast /\ results' # results
         /\ steps'[ci].status = "error") => cpc' = "break"]_vars
  /\ [][cpc = "break" => (cpc' = "returned" /\ steps' = steps)]_vars
  /\ [](~fail_fast => cpc # "raised")
  /\ []((cpc = "returned" /\ ~fail_fast) =>
          /\ Len(report.steps) = Len(steps)
          /\ \A k \in 1..Len(steps) : report.steps[k] = steps[k])

\* C34: the report CommandChain.execute returns describes the run, a second
\* run of the same chain included: the three counts by outcome add up to
\* steps_executed, steps_executed is the number of entries of the per-step
\* result list, and the steps the run did not reach are steps_total minus
\* steps_executed.
C34_ReportDescribesRun ==
  cpc = "returned" =>
    /\ report.steps_successful + report.steps_failed + report.steps_skipped
         = report.steps_executed
    /\ report.steps_executed = Len(report.steps)
    /\ report.steps_total - report.steps_executed
         = Len(steps) - Len(results)

\* The entries of sub are entries of seq, in the same order.
RECURSIVE IsSubsequence(_, _)
IsSubsequence(sub, seq) ==
  IF sub = <<>> THEN TRUE
  ELSE IF seq = <<>> THEN FALSE
  ELSE IF sub[1] = seq[1] THEN IsSubsequence(Tail(sub), Tail(seq))
  ELSE IsSubsequence(sub, Tail(seq))

\* The number of records in the command logs of the first n TaskStates of
\* ctx.
RECURSIVE LoggedByTasks(_, _)
LoggedByTasks(ctx, n) ==
  IF n = 0 THEN 0
  ELSE Len(ctx.tasks[n].command_history) + LoggedByTasks(ctx, n - 1)

\* The log of every task of ctx is an order-preserving subsequence of its
\* global log, whose length is the sum of the lengths of the tasks' logs.
LogsAgree(ctx) ==
  /\ \A n \in 1..Len(ctx.tasks) :
       IsSubsequence(ctx.tasks[n].command_history, ctx.command_history)
  /\ Len(ctx.command_history) = LoggedByTasks(ctx, Len(ctx.tasks))

\* The records a step has appended to the log old, new being the log after
\* the step.
Appended(old, new) == SubSeq(new, Len(old) + 1, Len(new))

\* C35: a step that appends records to the command log of a TaskState appends
\* the same records to the global command log of the context; the log of
\* every task is an order-preserving subsequence of the global log, whose
\* length is the sum of the lengths of the logs of all TaskStates, in the
\* initial state and after every step that changes the context.
C35_TaskLogsWithinGlobalLog ==
  /\ LogsAgree(context)
  /\ [][context' # context =>
          /\ LogsAgree(context')
          /\ \A n \in Tasks :
               Len(context'.tasks[n].command_history)
                 # Len(context.tasks[n].command_history)
               => (Appended(context.tasks[n].command_history,
                            context'.tasks[n].command_history)
                   = Appended(context.command_history,
                              context'.command_history))]_vars

C35_Witness ==
  /\ Len(context.tasks) >= 3
  /\ context.tasks[2].command_history # <<>>
  /\ context.tasks[3].command_history # <<>>
  /\ Len(context.command_history) >=
       Len(context.tasks[2].command_history) + 2
\* C36: when a call of execute_command returns, the last record appended to
\* the command logs is the record the call returns, and no record the call
\* has appended reports exit code 0 while the returned record reports a
\* non-zero exit code.
C36_LoggedRecordIsReturned ==
  [][nexec' = nexec + 1 =>
       LET appended == Appended(context.command_history,
                                context'.command_history)
       IN /\ appended # <<>>
          /\ appended[Len(appended)] = result'
          /\ result'.exit_code # 0 =>
               \A k \in 1..Len(appended) : appended[k].exit_code # 0]_vars

\* The text id has at most one '.', its numbers being at most n.
OneDotAtMost(id, n) ==
  \E a \in 1..n :
    \/ id = ToString(a)
    \/ \E b \in 1..n : id = ToString(a) \o "." \o ToString(b)

\* C37: every subtask of process_user_task is a direct child of a root task:
\* at the start of each iteration of the subtask loop the current task is the
\* root task started by this call, whichever path ended the previous
\* subtask; every task started is a root task or a child of that root task,
\* and its id has at most one '.'.
C37_SubtasksAreChildrenOfRoot ==
  /\ [](pc = "subtask_loop" =>
          /\ context.current_task = main_task
          /\ context.tasks[main_task].parent_task = NoTask)
  /\ [][\A n \in (Len(context.tasks) + 1)..Len(context'.tasks) :
          LET t == context'.tasks[n]
          IN /\ t.parent_task # NoTask =>
                  /\ t.parent_task = main_task
                  /\ context'.tasks[main_task].parent_task = NoTask
             /\ OneDotAtMost(t.task_id, Len(context'.tasks))]_vars

C37_Witness ==
  /\ pc = "subtask_loop"
  /\ i = 2
  /\ Len(context.tasks[main_task].subtasks) = 1
  /\ context.tasks[context.tasks[main_task].subtasks[1]].status = "failed"

\* The step leaves an entry of the command loop without executing its
\* command.
Declined == pc = "command_loop" /\ pc' # "verify"

\* The command loop of a subtask that carries commands has ended and the log
\* of the subtask is empty: every command was declined.
AllDeclined ==
  /\ pc = "subtask_end"
  /\ commands # <<>>
  /\ context.tasks[ActiveTask].command_history = <<>>

\* C38: a command is declined only with auto-run disabled; the declined
\* command is not executed, no record is added to any command log and the
\* subtask is not marked failed by it; a subtask whose commands were all
\* declined is marked completed.
C38_DeclinedCommandLeavesNoTrace ==
  /\ [][Declined =>
          /\ ~auto_run
          /\ nexec' = nexec
          /\ context' = context
          /\ all_success' = all_success]_vars
  /\ [][AllDeclined =>
          /\ all_success
          /\ context'.tasks[ActiveTask].status = "completed"]_vars

C38_Witness ==
  /\ ~auto_run
  /\ nexec = 0
  /\ Len(commands) >= 2
  /\ \E n \in Tasks :
       /\ context.tasks[n].parent_task = main_task
       /\ context.tasks[n].status = "completed"
       /\ context.tasks[n].output = "Completed successfully"
       /\ context.tasks[n].command_history = <<>>

\* A non-final subtask of an installation check has ended with all its
\* commands successful.
VerificationSucceeded ==
  pc = "subtask_end" /\ is_check_installation /\ i < nsubtasks /\ all_success

\* The step after which the Oracle's objective evaluation is requested.
EvaluationIssued ==
  /\ pc = "subtask_end"
  /\ EvaluationDue(IF all_success
                   THEN main_task_objective_achieved \/ ObjectiveByVerification
                   ELSE main_task_objective_achieved)

\* C39: in an installation check, the first non-final subtask that completes
\* successfully ends the task: process_user_task returns with the root task
\* completed and no further subtask started, and the Oracle's objective
\* evaluation is never requested.
C39_VerificationEndsTask ==
  /\ [][VerificationSucceeded =>
          /\ pc' = "ret_end"
          /\ Len(context'.tasks) = Len(context.tasks)
          /\ context'.tasks[ActiveTask].status = "completed"
          /\ context'.tasks[main_task].status = "completed"]_vars
  /\ [](Returned => ~ENABLED Next)
  /\ []~EvaluationIssued

C39_Witness ==
  /\ pc = "ret_end"
  /\ is_check_installation
  /\ all_success
  /\ nexec >= 1
  /\ i < nsubtasks
  /\ context.tasks[main_task].status = "completed"
  /\ Len(context.tasks[main_task].subtasks) = i

====
